---- MODULE Spec2Model ----
(***************************************************************************)
(* Model of the BibTeX lexical parser (src/src/bib2table.py) and of the    *)
(* identity-and-metrics engine (src/src/zhang_metrics.py, src/src/readers).*)
(*                                                                         *)
(* Strings are sequences of Unicode code points (naturals), so that case   *)
(* folding, percent-decoding and character classes are computed as the     *)
(* Python code computes them.  Cursor variables (i, pos, at, j) keep the   *)
(* 0-based values they have in the source: Python's s[k] is s[k + 1] here. *)
(***************************************************************************)
EXTENDS Naturals, Integers, Sequences, FiniteSets, TLC

VARIABLES
    pc,          \* position of the running routine
    text,        \* split_bibtex_entries: the argument
    i,           \* split_bibtex_entries: outer cursor
    entries,     \* split_bibtex_entries: the list being built
    spans,       \* history: <<at, end, closed>> of every appended entry text[at:end]
    s,           \* _parse_bib_value: the string argument
    pos,         \* _parse_bib_value: the cursor (argument, then second result)
    val,         \* _parse_bib_value: the value returned
    pos0,        \* history: the cursor _parse_bib_value was called with
    source_fields, \* the <<name, value literal>> pairs entry_text is written from
    entry_text,  \* parse_entry: the argument
    entry_type,  \* parse_entry: first result
    citation_key, \* parse_entry: second result
    fields_text, \* parse_entry: the text behind the citation key
    fields,      \* parse_entry: the field mapping
    doi_raw,     \* the argument of a DOI-cleaning routine
    routine,     \* which DOI-cleaning routine was applied
    once,        \* routine(doi_raw)
    twice,       \* routine(routine(doi_raw))
    source_kind, \* compute_metrics: "bib" (args.bibs_dir given) or "csv"
    raw_records, \* history: the entries / rows read so far, as read
    retrieved_ids,  \* parse_bib_dir / parse_csv_dir: set of identities
    retrieved_dois, \* parse_bib_dir / parse_csv_dir: set of DOIs
    detail,      \* parse_bib_dir / parse_csv_dir: list of detail dicts
    dir_files,   \* the result files of the input directory, in os.listdir order
    file_index,  \* parse_bib_dir / parse_csv_dir: files of the listing read so far
    db_entries,  \* parse_bib_dir: entries of the database held by the parser object
    targets_dois, \* args.targets_dois
    relevant_dois, \* compute_metrics: the set load_relevant returned
    report,      \* compute_metrics: the report dict
    raw,         \* _apply_providers: the raw entry
    normalized,  \* _apply_providers: the record dict, mutated in place
    provider_index, \* _apply_providers: position in PROVIDERS
    returned,    \* _apply_providers: the dict returned
    before,      \* history: the record as passed to _apply_providers
    fix_calls,   \* history: names of the providers whose fix was entered
    raised,      \* history: names of the providers whose detect or fix raised
    fixed_once,  \* fix(normalized, raw) of one provider
    fixed_twice  \* fix(fix(normalized, raw), raw) of the same provider

splitVars == <<text, i, entries, spans>>
valueVars == <<s, pos, val, pos0>>
entryVars == <<source_fields, entry_text, entry_type, citation_key, fields_text, fields>>
doiVars == <<doi_raw, routine, once, twice>>
metricVars == <<source_kind, raw_records, retrieved_ids, retrieved_dois, detail>>
reportVars == <<dir_files, file_index, db_entries, targets_dois, relevant_dois, report>>
providerVars == <<raw, normalized, provider_index, returned, before, fix_calls, raised,
                  fixed_once, fixed_twice>>
vars == <<pc, splitVars, valueVars, entryVars, doiVars, metricVars, reportVars, providerVars>>

----------------------------------------------------------------------------
(* Characters *)

Ord ==
    ("@" :> 64) @@ ("{" :> 123) @@ ("}" :> 125) @@ ("," :> 44) @@ ("=" :> 61) @@
    ("\"" :> 34) @@ ("\\" :> 92) @@ (" " :> 32) @@ ("\n" :> 10) @@ ("|" :> 124) @@
    ("%" :> 37) @@ ("." :> 46) @@ ("/" :> 47) @@ (":" :> 58) @@ (";" :> 59) @@
    (")" :> 41) @@ ("]" :> 93) @@
    ("0" :> 48) @@ ("1" :> 49) @@ ("2" :> 50) @@ ("3" :> 51) @@ ("4" :> 52) @@
    ("5" :> 53) @@ ("6" :> 54) @@ ("7" :> 55) @@ ("8" :> 56) @@ ("9" :> 57) @@
    ("A" :> 65) @@ ("B" :> 66) @@ ("C" :> 67) @@ ("D" :> 68) @@ ("G" :> 71) @@
    ("H" :> 72) @@ ("I" :> 73) @@ ("O" :> 79) @@ ("P" :> 80) @@ ("R" :> 82) @@
    ("S" :> 83) @@ ("T" :> 84) @@ ("U" :> 85) @@ ("X" :> 88) @@ ("Y" :> 89) @@
    ("a" :> 97) @@ ("b" :> 98) @@ ("c" :> 99) @@ ("d" :> 100) @@ ("g" :> 103) @@
    ("h" :> 104) @@ ("i" :> 105) @@ ("k" :> 107) @@ ("l" :> 108) @@ ("o" :> 111) @@
    ("e" :> 101) @@ ("n" :> 110) @@ ("w" :> 119) @@ ("y" :> 121) @@ ("_" :> 95) @@
    ("p" :> 112) @@ ("r" :> 114) @@ ("s" :> 115) @@ ("t" :> 116) @@ ("u" :> 117) @@
    ("x" :> 120) @@
    ("f" :> 102) @@ ("j" :> 106) @@ ("m" :> 109) @@ ("q" :> 113) @@ ("v" :> 118) @@
    ("z" :> 122) @@ ("E" :> 69) @@ ("F" :> 70) @@ ("L" :> 76) @@ ("M" :> 77) @@
    ("N" :> 78) @@ ("-" :> 45) @@ ("(" :> 40)

\* a Python string literal, written as a tuple of one-character strings
Str(lit) == [k \in 1..Len(lit) |-> Ord[lit[k]]]

\* all strings over alphabet of length 0..n
StringsUpTo(alphabet, n) == UNION {[1..m -> alphabet] : m \in 0..n}

\* s[a:b] of Python, for 0 <= a, b
Slice(str, a, b) == SubSeq(str, a + 1, IF b > Len(str) THEN Len(str) ELSE b)

\* variant of Find that starts the search one position late
FindAfterStart(str, ch, start) ==
    LET hits == {k \in (start + 1)..(Len(str) - 1) : str[k + 1] = ch}
    IN  IF hits = {} THEN -1 ELSE CHOOSE k \in hits : \A h \in hits : k <= h

\* str.find(ch, start): the least index >= start holding ch, or -1
Find(str, ch, start) ==
    LET hits == {k \in start..(Len(str) - 1) : str[k + 1] = ch}
    IN  IF hits = {} THEN -1 ELSE CHOOSE k \in hits : \A h \in hits : k <= h

\* str.isspace() and the \s class of re on str
WhitespaceChars ==
    {9, 10, 11, 12, 13, 28, 29, 30, 31, 32, 133, 160, 5760, 8232, 8233, 8239,
     8287, 12288} \cup (8192..8202)

IsSpace(c) == c \in WhitespaceChars

\* [A-Za-z]
IsAlpha(c) == (65 <= c /\ c <= 90) \/ (97 <= c /\ c <= 122)

\* str.lower() on the ASCII range
LowerChar(c) == IF 65 <= c /\ c <= 90 THEN c + 32 ELSE c

Lower(str) == [k \in 1..Len(str) |-> LowerChar(str[k])]

\* the element of a set of one element; what it is applied to binds each
\* intermediate result once
Only(S) == CHOOSE x \in S : TRUE

RECURSIVE Concat(_)
Concat(parts) == IF parts = <<>> THEN <<>> ELSE Head(parts) \o Concat(Tail(parts))

\* str.strip()
Strip(str) ==
    LET keep == {k \in 1..Len(str) : ~IsSpace(str[k])}
    IN  IF keep = {} THEN <<>>
        ELSE SubSeq(str, CHOOSE k \in keep : \A h \in keep : k <= h,
                         CHOOSE k \in keep : \A h \in keep : k >= h)

\* the states in which a routine is not running
IdleSplit == text = <<>> /\ i = 0 /\ entries = <<>> /\ spans = <<>>
IdleValue == s = <<>> /\ pos = 0 /\ val = <<>> /\ pos0 = 0
IdleDoi == doi_raw = <<>> /\ routine = "" /\ once = <<>> /\ twice = <<>>
IdleMetrics ==
    /\ source_kind = "" /\ raw_records = <<>> /\ retrieved_ids = {}
    /\ retrieved_dois = {} /\ detail = <<>>
IdleReport ==
    /\ dir_files = <<>> /\ file_index = 0 /\ db_entries = <<>>
    /\ targets_dois = <<>> /\ relevant_dois = {} /\ report = <<>>
IdleProviders ==
    /\ raw = <<>> /\ normalized = <<>> /\ provider_index = 0 /\ returned = <<>>
    /\ before = <<>> /\ fix_calls = <<>> /\ raised = <<>>
    /\ fixed_once = <<>> /\ fixed_twice = <<>>
IdleEntry ==
    /\ source_fields = <<>> /\ entry_text = <<>> /\ entry_type = <<>>
    /\ citation_key = <<>> /\ fields_text = <<>> /\ fields = <<>>

----------------------------------------------------------------------------
(* split_bibtex_entries *)

MaxTextLen == 7

SplitAlphabet == {Ord["@"], Ord["{"], Ord["}"], Ord["a"]}

\* variant of ScanBody that does not count the '{' characters
RECURSIVE ScanBodyNoNesting(_, _, _)
ScanBodyNoNesting(str, j, depth) ==
    IF j < Len(str) /\ depth > 0
    THEN ScanBodyNoNesting(str, j + 1,
             IF str[j + 1] = Ord["}"] THEN depth - 1 ELSE depth)
    ELSE <<j, depth>>

\* variant of ScanBody without the depth > 0 test of the loop condition
RECURSIVE ScanBodyToEnd(_, _, _)
ScanBodyToEnd(str, j, depth) ==
    IF j < Len(str)
    THEN ScanBodyToEnd(str, j + 1,
             IF str[j + 1] = Ord["{"] THEN depth + 1
             ELSE IF str[j + 1] = Ord["}"] THEN depth - 1
             ELSE depth)
    ELSE <<j, depth>>

\* the inner while loop: from cursor j at the given depth to <<j, depth>>
RECURSIVE ScanBody(_, _, _)
ScanBody(str, j, depth) ==
    IF j < Len(str) /\ depth > 0
    THEN ScanBody(str, j + 1,
             IF str[j + 1] = Ord["{"] THEN depth + 1
             ELSE IF str[j + 1] = Ord["}"] THEN depth - 1
             ELSE depth)
    ELSE <<j, depth>>

InitSplit ==
    /\ text \in StringsUpTo(SplitAlphabet, MaxTextLen)
    /\ i = 0
    /\ entries = <<>>
    /\ spans = <<>>
    /\ pc = "split"
    /\ IdleValue
    /\ IdleEntry
    /\ IdleDoi
    /\ IdleMetrics
    /\ IdleReport
    /\ IdleProviders

\* variant of SplitIteration that restarts the search at the '@' of the entry
\* it has just closed
SplitIterationFromSigil ==
    /\ pc = "split"
    /\ i < Len(text)
    /\ LET at == Find(text, Ord["@"], i)
           br_open == Find(text, Ord["{"], at)
           scan == ScanBody(text, br_open + 1, 1)
           j == scan[1]
           depth == scan[2]
       IN  IF at = -1 \/ br_open = -1
           THEN /\ pc' = "split_done"
                /\ UNCHANGED <<i, entries, spans>>
           ELSE IF depth = 0
           THEN /\ entries' = IF at = i /\ entries # <<>> THEN entries
                              ELSE Append(entries, Slice(text, at, j))
                /\ spans' = IF at = i /\ spans # <<>> THEN spans
                            ELSE Append(spans, <<at, j, TRUE>>)
                /\ i' = at
                /\ pc' = pc
           ELSE /\ entries' = Append(entries, Slice(text, at, Len(text)))
                /\ spans' = Append(spans, <<at, Len(text), FALSE>>)
                /\ pc' = "split_done"
                /\ i' = i
    /\ UNCHANGED <<text, valueVars, entryVars, doiVars, metricVars, reportVars, providerVars>>

\* one iteration of the outer while loop
SplitIteration ==
    /\ pc = "split"
    /\ i < Len(text)
    /\ LET at == Find(text, Ord["@"], i)
           br_open == Find(text, Ord["{"], at)
           scan == ScanBody(text, br_open + 1, 1)
           j == scan[1]
           depth == scan[2]
       IN  IF at = -1 \/ br_open = -1
           THEN /\ pc' = "split_done"
                /\ UNCHANGED <<i, entries, spans>>
           ELSE IF depth = 0
           THEN /\ entries' = Append(entries, Slice(text, at, j))
                /\ spans' = Append(spans, <<at, j, TRUE>>)
                /\ i' = j
                /\ pc' = pc
           ELSE /\ entries' = Append(entries, Slice(text, at, Len(text)))
                /\ spans' = Append(spans, <<at, Len(text), FALSE>>)
                /\ pc' = "split_done"
                /\ i' = i
    /\ UNCHANGED <<text, valueVars, entryVars, doiVars, metricVars, reportVars, providerVars>>

\* the loop condition fails: return entries
SplitReturn ==
    /\ pc = "split"
    /\ i >= Len(text)
    /\ pc' = "split_done"
    /\ UNCHANGED <<splitVars, valueVars, entryVars, doiVars, metricVars, reportVars, providerVars>>

NextSplit == SplitIteration \/ SplitReturn

SpecSplit == InitSplit /\ [][NextSplit]_vars

----------------------------------------------------------------------------
(* _parse_bib_value *)

MaxValueLen == 5

ValueAlphabet ==
    {Ord["\""], Ord["\\"], Ord["a"], Ord["{"], Ord["}"], Ord[","]}

\* the '{' branch: <<buf, pos>> after the loop started at p with the given depth
RECURSIVE ParseBraced(_, _, _, _)
ParseBraced(str, p, depth, buf) ==
    IF p < Len(str) /\ depth > 0
    THEN LET c == str[p + 1]
         IN  IF c = Ord["{"] THEN ParseBraced(str, p + 1, depth + 1, Append(buf, c))
             ELSE IF c = Ord["}"]
             THEN IF depth - 1 = 0 THEN <<buf, p + 1>>
                  ELSE ParseBraced(str, p + 1, depth - 1, Append(buf, c))
             ELSE ParseBraced(str, p + 1, depth, Append(buf, c))
    ELSE <<buf, p>>

\* variant of ParseQuoted that ends at any '"', escaped or not
RECURSIVE ParseQuotedNoEscape(_, _, _)
ParseQuotedNoEscape(str, p, buf) ==
    IF p < Len(str)
    THEN LET c == str[p + 1]
         IN  IF c = Ord["\""] THEN <<buf, p + 1>>
             ELSE ParseQuotedNoEscape(str, p + 1, Append(buf, c))
    ELSE <<buf, p>>

\* the '"' branch
RECURSIVE ParseQuoted(_, _, _)
ParseQuoted(str, p, buf) ==
    IF p < Len(str)
    THEN LET c == str[p + 1]
         IN  IF c = Ord["\""] /\ (p = 0 \/ str[p] # Ord["\\"])
             THEN <<buf, p + 1>>
             ELSE ParseQuoted(str, p + 1, Append(buf, c))
    ELSE <<buf, p>>

\* the bare-literal branch
RECURSIVE ParseBare(_, _, _)
ParseBare(str, p, buf) ==
    IF p < Len(str) /\ str[p + 1] \notin {Ord[","], Ord["}"]}
    THEN ParseBare(str, p + 1, Append(buf, str[p + 1]))
    ELSE <<buf, p>>

\* _parse_bib_value(s, pos) = <<value, next cursor>>
ParseBibValue(str, p) ==
    IF p >= Len(str) THEN <<<<>>, p>>
    ELSE IF str[p + 1] = Ord["{"] THEN ParseBraced(str, p + 1, 1, <<>>)
    ELSE IF str[p + 1] = Ord["\""] THEN ParseQuoted(str, p + 1, <<>>)
    ELSE ParseBare(str, p, <<>>)

InitValue ==
    /\ s \in StringsUpTo(ValueAlphabet, MaxValueLen)
    /\ pos \in 0..Len(s)
    /\ pos0 = pos
    /\ val = <<>>
    /\ pc = "value"
    /\ IdleSplit
    /\ IdleEntry
    /\ IdleDoi
    /\ IdleMetrics
    /\ IdleReport
    /\ IdleProviders

ParseValueCall ==
    /\ pc = "value"
    /\ val' = ParseBibValue(s, pos)[1]
    /\ pos' = ParseBibValue(s, pos)[2]
    /\ pc' = "value_done"
    /\ UNCHANGED <<s, pos0, splitVars, entryVars, doiVars, metricVars, reportVars, providerVars>>

NextValue == ParseValueCall

SpecValue == InitValue /\ [][NextValue]_vars

----------------------------------------------------------------------------
(* Properties of _parse_bib_value *)

\* indices after the opening quote at p that hold a '"' not preceded by '\'
UnescapedQuotes(str, p) ==
    {q \in (p + 1)..(Len(str) - 1) : str[q + 1] = Ord["\""] /\ str[q] # Ord["\\"]}

\* C6: a value opened by '"' ends at the first later '"' that no backslash
\* precedes; the value returned is the text strictly between the two quotes
\* and the cursor stands just behind the closing quote.
C6_QuotedValue ==
    (pc = "value_done" /\ pos0 < Len(s) /\ s[pos0 + 1] = Ord["\""]
        /\ UnescapedQuotes(s, pos0) # {})
        => LET q == CHOOSE q \in UnescapedQuotes(s, pos0) :
                        \A h \in UnescapedQuotes(s, pos0) : q <= h
           IN  /\ val = Slice(s, pos0 + 1, q)
               /\ pos = q + 1

\* a quoted value that contains an escaped quote before its closing quote
C6_Witness ==
    /\ pc = "value_done"
    /\ pos0 < Len(s)
    /\ s[pos0 + 1] = Ord["\""]
    /\ UnescapedQuotes(s, pos0) # {}
    /\ \E k \in 1..(Len(val) - 1) : val[k] = Ord["\\"] /\ val[k + 1] = Ord["\""]

----------------------------------------------------------------------------
(* Properties of split_bibtex_entries *)

\* number of occurrences of ch in s[a:b]
Count(str, ch, a, b) == Cardinality({k \in a..(b - 1) : k < Len(str) /\ str[k + 1] = ch})

\* brace depth of s[a:b], counted from 0 at a
BraceDepth(str, a, b) == Count(str, Ord["{"], a, b) - Count(str, Ord["}"], a, b)

\* every '{' and '}' of s is balanced
Balanced(str) ==
    /\ \A k \in 0..Len(str) : BraceDepth(str, 0, k) >= 0
    /\ BraceDepth(str, 0, Len(str)) = 0

\* positions of the '@' characters that have a '{' somewhere after them
SigilsWithBrace(str) ==
    {p \in 0..(Len(str) - 1) :
        str[p + 1] = Ord["@"] /\ \E q \in (p + 1)..(Len(str) - 1) : str[q + 1] = Ord["{"]}

\* every '@' that has a later '{' lies outside all braces and a '{' stands
\* between it and the next '@'
SigilsAtTopLevel(str) ==
    \A p \in SigilsWithBrace(str) :
        /\ BraceDepth(str, 0, p) = 0
        /\ \A q \in (p + 1)..(Len(str) - 1) :
               str[q + 1] = Ord["@"] => Count(str, Ord["{"], p, q) > 0

\* C1 as stated: on balanced text the splitter returns as many entries as
\* there are '@' with a following '{'.
C1_AsStated ==
    (pc = "split_done" /\ Balanced(text))
        => Len(entries) = Cardinality(SigilsWithBrace(text))

\* C1 (amended): on balanced text the splitter returns at most as many
\* entries as there are '@' with a following '{', and exactly as many when
\* each such '@' lies at brace depth 0 and is separated from the next '@' by
\* a '{' (an '@' inside an entry's span starts no entry of its own).
C1_EntryCount ==
    (pc = "split_done" /\ Balanced(text))
        => /\ Len(entries) <= Cardinality(SigilsWithBrace(text))
           /\ SigilsAtTopLevel(text)
                  => Len(entries) = Cardinality(SigilsWithBrace(text))

C1_Witness ==
    /\ pc = "split_done"
    /\ Balanced(text)
    /\ SigilsAtTopLevel(text)
    /\ Len(entries) = 2

\* the '}' at index e - 1 is the one that brings the depth, counted from the
\* '{' at index b, back to 0 for the first time
ClosesAt(str, b, e) ==
    /\ b < e /\ e <= Len(str)
    /\ str[b + 1] = Ord["{"]
    /\ str[e] = Ord["}"]
    /\ BraceDepth(str, b, e) = 0
    /\ \A k \in (b + 1)..(e - 1) : BraceDepth(str, b, k) > 0

\* C2: every closed entry is text[at:e] with '@' at at and e - 1 the brace
\* that matches the first '{' after at (nested braces do not end it early);
\* entries do not overlap and follow text order.
C2_ExactSpans ==
    /\ Len(spans) = Len(entries)
    /\ \A k \in DOMAIN entries :
           LET at == spans[k][1]
               e == spans[k][2]
           IN  /\ text[at + 1] = Ord["@"]
               /\ entries[k] = Slice(text, at, e)
               /\ spans[k][3] =>
                      \E b \in (at + 1)..(e - 1) :
                          /\ text[b + 1] = Ord["{"]
                          /\ Count(text, Ord["{"], at, b) = 0
                          /\ ClosesAt(text, b, e)
               /\ k > 1 => spans[k - 1][2] <= at

\* a closed entry with a nested pair of braces, followed by a second entry
C2_Witness ==
    /\ pc = "split_done"
    /\ Len(entries) = 2
    /\ spans[1][3]
    /\ Count(entries[1], Ord["{"], 0, Len(entries[1])) = 2

\* scanning from cursor c meets an '@' whose first '{' is never closed
UnclosedFrom(str, c) ==
    LET at == Find(str, Ord["@"], c)
        b == Find(str, Ord["{"], at)
    IN  /\ at # -1
        /\ b # -1
        /\ \A e \in (b + 1)..Len(str) : BraceDepth(str, b, e) > 0

\* C3: when the text ends inside an entry, the iteration appends the rest of
\* the text from that entry's '@' as the last entry, keeps the entries
\* before it, and returns.
C3_TruncatedTail ==
    [][(pc = "split" /\ i < Len(text) /\ UnclosedFrom(text, i))
        => /\ entries' = Append(entries,
                  Slice(text, Find(text, Ord["@"], i), Len(text)))
           /\ pc' = "split_done"]_vars

C3_Witness ==
    /\ pc = "split_done"
    /\ Len(entries) = 2
    /\ spans[1][3]
    /\ ~spans[2][3]
    /\ spans[2][2] = Len(text)

\* C4 as stated: the result is empty only when the text has no '@'.
C4_AsStated ==
    pc = "split_done"
        => (entries = <<>> <=> Count(text, Ord["@"], 0, Len(text)) = 0)

\* C4 (amended): the result is empty exactly when no '@' of the text has a
\* '{' after it; an '@' that no '{' follows yields nothing.
C4_EmptyOnlyWithoutSigil ==
    pc = "split_done" => (entries = <<>> <=> SigilsWithBrace(text) = {})

C4_Witness ==
    /\ pc = "split_done"
    /\ entries = <<>>
    /\ Count(text, Ord["@"], 0, Len(text)) > 0

----------------------------------------------------------------------------
(* _clean_bib_value *)

\* end of the whitespace run that starts at p
SkipSpaces(str, p) ==
    CHOOSE q \in p..Len(str) :
        /\ q = Len(str) \/ ~IsSpace(str[q + 1])
        /\ \A k \in p..(q - 1) : IsSpace(str[k + 1])

\* the for loop of the unwrap pass: is the value still "balanced" from
\* index k on, entered at the given depth
RECURSIVE BalancedScan(_, _, _)
BalancedScan(v2, k, depth) ==
    IF k >= Len(v2) THEN TRUE
    ELSE LET ch == v2[k + 1]
             d == IF ch = Ord["{"] THEN depth + 1
                  ELSE IF ch = Ord["}"] THEN depth - 1
                  ELSE depth
         IN  IF ch = Ord["}"] /\ d < 0 THEN FALSE
             ELSE IF d = 0 /\ k # Len(v2) - 1 THEN FALSE
             ELSE BalancedScan(v2, k + 1, d)

\* variant of Unwrap with an if in place of the while
UnwrapOnce(v2) ==
    IF Len(v2) > 0 /\ v2[1] = Ord["{"] /\ v2[Len(v2)] = Ord["}"]
           /\ BalancedScan(v2, 0, 0)
    THEN Strip(Slice(v2, 1, Len(v2) - 1))
    ELSE v2

\* the while loop: strip enclosing pairs as long as the scan accepts them
RECURSIVE Unwrap(_)
Unwrap(v2) ==
    IF Len(v2) > 0 /\ v2[1] = Ord["{"] /\ v2[Len(v2)] = Ord["}"]
           /\ BalancedScan(v2, 0, 0)
    THEN Only({Unwrap(inner) : inner \in {Strip(Slice(v2, 1, Len(v2) - 1))}})
    ELSE v2

\* re.sub(r'\s+\n', ' ', v2): in every whitespace run, the part up to its last
\* newline becomes one space when at least one whitespace precedes that newline
RECURSIVE SubSpacesNewline(_, _)
SubSpacesNewline(str, p) ==
    IF p >= Len(str) THEN <<>>
    ELSE IF ~IsSpace(str[p + 1]) THEN <<str[p + 1]>> \o SubSpacesNewline(str, p + 1)
    ELSE LET q == SkipSpaces(str, p)
             nls == {k \in (p + 1)..(q - 1) : str[k + 1] = Ord["\n"]}
         IN  IF nls = {} THEN Slice(str, p, q) \o SubSpacesNewline(str, q)
             ELSE LET nl == CHOOSE k \in nls : \A h \in nls : k >= h
                  IN  <<Ord[" "]>> \o Slice(str, nl + 1, q) \o SubSpacesNewline(str, q)

\* re.sub(r'\s+', ' ', v2)
RECURSIVE SubSpaces(_, _)
SubSpaces(str, p) ==
    IF p >= Len(str) THEN <<>>
    ELSE IF ~IsSpace(str[p + 1]) THEN <<str[p + 1]>> \o SubSpaces(str, p + 1)
    ELSE <<Ord[" "]>> \o SubSpaces(str, SkipSpaces(str, p))

CleanBibValue(v) ==
    Only({Strip(y) : y \in {SubSpaces(x, 0) : x \in
             {SubSpacesNewline(v2, 0) : v2 \in {Unwrap(w) : w \in {Strip(v)}}}}})

----------------------------------------------------------------------------
(* parse_entry *)

MaxInnerLen == 7
MaxFields == 3

InnerAlphabet == {Ord["{"], Ord["}"], Ord["A"], Ord[" "]}

FieldNames == {Str(<<"t">>), Str(<<"T", " ">>), Str(<<"u">>)}

\* value literals of the three forms, each with the value it denotes
Denotes ==
    (Str(<<"{", "A", "}">>) :> Str(<<"A">>)) @@
    (Str(<<"\"", "B", "\\", "\"", "\"">>) :> Str(<<"B", "\\", "\"">>)) @@
    (Str(<<"C">>) :> Str(<<"C">>)) @@
    (Str(<<"{", "{", "D", "}", " ", "\n", "A", "}">>) :> Str(<<"{", "D", "}", " ", "A">>))

Separators == {Str(<<",">>), Str(<<",", "\n", " ">>)}

RECURSIVE Render(_, _, _)
Render(fs, k, sep) ==
    IF k > Len(fs) THEN <<Ord["}"]>>
    ELSE fs[k][1] \o <<Ord["="]>> \o fs[k][2]
         \o (IF k < Len(fs) THEN sep ELSE <<>>) \o Render(fs, k + 1, sep)

EntryHead == Str(<<"@", "a", "{", "k", ",">>)

MaxBodyPieces == 4

\* what follows the opening brace of an entry is put together from these
BodyPieces ==
    {Str(<<"k">>), Str(<<",">>), Str(<<"{">>), Str(<<"}">>), Str(<<"\"">>), Str(<<" ">>),
     Str(<<"=">>), Str(<<"{", ",", "}">>), Str(<<"\"", ",", "\"">>)}

\* entry texts of any shape after the opening brace, closed or not
EntryBodies ==
    {Concat(ps) : ps \in UNION {[1..m -> BodyPieces] : m \in 0..MaxBodyPieces}}

OpenHead == Str(<<"@", "a", "{">>)

\* one field whose braced value ranges over all short strings, and entries of
\* several fields whose names may repeat
SourceFieldLists ==
    {<<<<Str(<<"t">>), <<Ord["{"]>> \o v \o <<Ord["}"]>>>>>> :
        v \in StringsUpTo(InnerAlphabet, MaxInnerLen)}
    \cup UNION {[1..m -> FieldNames \X DOMAIN Denotes] : m \in 2..MaxFields}

\* re.match(r'\s*@\s*([A-Za-z]+)\s*{', entry_text): <<matched, start of
\* group 1, end of group 1, index of the '{'>>
SkipAlpha(str, p) ==
    CHOOSE q \in p..Len(str) :
        /\ q = Len(str) \/ ~IsAlpha(str[q + 1])
        /\ \A k \in p..(q - 1) : IsAlpha(str[k + 1])

MatchHead(str) ==
    LET p1 == SkipSpaces(str, 0)
        p2 == SkipSpaces(str, p1 + 1)
        p3 == SkipAlpha(str, p2)
        p4 == SkipSpaces(str, p3)
    IN  IF /\ p1 < Len(str) /\ str[p1 + 1] = Ord["@"]
           /\ p3 > p2
           /\ p4 < Len(str) /\ str[p4 + 1] = Ord["{"]
        THEN <<TRUE, p2, p3, p4>>
        ELSE <<FALSE, 0, 0, 0>>

\* variant of KeyScan that takes no notice of double quotes
RECURSIVE KeyScanIgnoringQuotes(_, _, _, _, _)
KeyScanIgnoringQuotes(str, k, depth, in_quotes, key_buf) ==
    IF k >= Len(str) THEN <<key_buf, k>>
    ELSE LET ch == str[k + 1]
         IN  IF depth = 0 /\ ch = Ord[","] THEN <<key_buf, k + 1>>
             ELSE KeyScanIgnoringQuotes(str, k + 1,
                      IF ch = Ord["{"] THEN depth + 1
                      ELSE IF ch = Ord["}"] /\ depth > 0 THEN depth - 1
                      ELSE depth,
                      FALSE, Append(key_buf, ch))

\* the citation-key loop: <<key_buf, i>>
RECURSIVE KeyScan(_, _, _, _, _)
KeyScan(str, k, depth, in_quotes, key_buf) ==
    IF k >= Len(str) THEN <<key_buf, k>>
    ELSE LET ch == str[k + 1]
             q == IF ch = Ord["\""] /\ depth = 0 THEN ~in_quotes ELSE in_quotes
         IN  IF ~q /\ depth = 0 /\ ch = Ord[","] THEN <<key_buf, k + 1>>
             ELSE KeyScan(str, k + 1,
                      IF q THEN depth
                      ELSE IF ch = Ord["{"] THEN depth + 1
                      ELSE IF ch = Ord["}"] /\ depth > 0 THEN depth - 1
                      ELSE depth,
                      q, Append(key_buf, ch))

\* str.strip(',')
StripCommas(str) ==
    LET keep == {k \in 1..Len(str) : str[k] # Ord[","]}
    IN  IF keep = {} THEN <<>>
        ELSE SubSeq(str, CHOOSE k \in keep : \A h \in keep : k <= h,
                         CHOOSE k \in keep : \A h \in keep : k >= h)

\* variant of Put that keeps the value already stored
PutFirstWins(f, name, value) ==
    IF name \in DOMAIN f THEN f ELSE (name :> value) @@ f

\* fields[name] = value
Put(f, name, value) ==
    [n \in DOMAIN f \cup {name} |-> IF n = name THEN value ELSE f[n]]

\* field_name = ''.join(name_buf).strip().lower().strip(',')
FieldName(name_buf) == StripCommas(Lower(Strip(name_buf)))

\* first index >= p that is the end of the text or holds one of the stops
ScanTo(str, p, stops) ==
    CHOOSE q \in p..Len(str) :
        /\ q = Len(str) \/ str[q + 1] \in stops
        /\ \A k \in p..(q - 1) : str[k + 1] \notin stops

\* one iteration of the field loop: <<continue, pos, fields>>.  Every cursor
\* is computed once, at the place where the loop body computes it.
FieldStep(ft, p, f) ==
    Only({
        IF p1 >= Len(ft) \/ ft[p1 + 1] = Ord["}"] THEN <<FALSE, p1, f>>
        ELSE Only({Only({
            IF p3 >= Len(ft) \/ ft[p3 + 1] # Ord["="] THEN <<FALSE, p3, f>>
            ELSE Only({Only({Only({
                <<TRUE,
                  IF p7 < Len(ft) /\ ft[p7 + 1] = Ord[","] THEN p7 + 1 ELSE p7,
                  IF field_name # <<>> THEN Put(f, field_name, value) ELSE f>>
                : p7 \in {SkipSpaces(ft, parsed[2])},
                  field_name \in {FieldName(Slice(ft, p1, p2))},
                  value \in {CleanBibValue(parsed[1])}})
                : parsed \in {ParseBibValue(ft, p5)}})
                : p5 \in {SkipSpaces(ft, p3 + 1)}})
            : p3 \in {ScanTo(ft, p2, {Ord["="], Ord["}"]})}})
            : p2 \in {ScanTo(ft, p1, {Ord["="], Ord["\n"], Ord["}"]})}})
        : p1 \in {SkipSpaces(ft, p)}})

InitEntry ==
    /\ source_fields \in SourceFieldLists \cup {<<>>}
    /\ IF source_fields = <<>>
       THEN \E body \in EntryBodies : entry_text = OpenHead \o body
       ELSE \E sep \in Separators :
                /\ Len(source_fields) = 1 => sep = Str(<<",">>)
                /\ entry_text = EntryHead \o Render(source_fields, 1, sep)
    /\ entry_type = <<>>
    /\ citation_key = <<>>
    /\ fields_text = <<>>
    /\ fields = <<>>
    /\ pos = 0
    /\ s = <<>> /\ val = <<>> /\ pos0 = 0
    /\ pc = "entry"
    /\ IdleSplit
    /\ IdleDoi
    /\ IdleMetrics
    /\ IdleReport
    /\ IdleProviders

\* lines 87-106: entry type, citation key, start of the field loop
ParseHead ==
    /\ pc = "entry"
    /\ \E m \in {MatchHead(entry_text)} :
       \E key \in {KeyScan(entry_text, m[4] + 1, 0, FALSE, <<>>)} :
           IF ~m[1]
           THEN /\ entry_type' = Str(<<"u", "n", "k", "n", "o", "w", "n">>)
                /\ citation_key' =
                       Str(<<"u", "n", "k", "n", "o", "w", "n", "_", "k", "e", "y">>)
                /\ fields' = <<>>
                /\ fields_text' = fields_text
                /\ pc' = "entry_done"
           ELSE /\ entry_type' = Lower(Strip(Slice(entry_text, m[2], m[3])))
                /\ citation_key' = Strip(key[1])
                /\ fields_text' = Slice(entry_text, key[2], Len(entry_text))
                /\ fields' = <<>>
                /\ pc' = "fields"
    /\ pos' = 0
    /\ UNCHANGED <<source_fields, entry_text, s, val, pos0, splitVars, doiVars, metricVars, reportVars, providerVars>>

\* lines 107-124: one iteration of the field loop
ParseField ==
    /\ pc = "fields"
    /\ pos < Len(fields_text)
    /\ \E r \in {FieldStep(fields_text, pos, fields)} :
           /\ pos' = r[2]
           /\ fields' = r[3]
           /\ pc' = IF r[1] THEN pc ELSE "entry_done"
    /\ UNCHANGED <<source_fields, entry_text, entry_type, citation_key,
                   fields_text, s, val, pos0, splitVars, doiVars, metricVars, reportVars, providerVars>>

\* the loop condition fails: return (entry_type, citation_key, fields)
ParseReturn ==
    /\ pc = "fields"
    /\ pos >= Len(fields_text)
    /\ pc' = "entry_done"
    /\ UNCHANGED <<pos, s, val, pos0, entryVars, splitVars, doiVars, metricVars, reportVars, providerVars>>

NextEntry == ParseHead \/ ParseField \/ ParseReturn

SpecEntry == InitEntry /\ [][NextEntry]_vars

----------------------------------------------------------------------------
(* split_bibtex_entries and parse_entry, run to their return *)

InitTerminate == InitSplit \/ InitEntry

NextTerminate == NextSplit \/ NextEntry

\* the interpreter takes the next step of the routine as long as there is one
SpecTerminate == InitTerminate /\ [][NextTerminate]_vars /\ WF_vars(NextTerminate)

----------------------------------------------------------------------------
(* Properties of parse_entry *)

\* the first '{' of v is matched by its last '}'
Enclosed(v) == Len(v) >= 2 /\ ClosesAt(v, 0, Len(v))

\* v without the brace pairs that enclose the whole of it
RECURSIVE WithoutEnclosingBraces(_)
WithoutEnclosingBraces(v) ==
    IF Enclosed(Strip(v))
    THEN WithoutEnclosingBraces(Slice(Strip(v), 1, Len(Strip(v)) - 1))
    ELSE Strip(v)

\* runs of whitespace become one space, the ends are trimmed
NormaliseSpace(v) == Strip(SubSpaces(v, 0))

\* the entry has the single field t = {...} and the value's braces close
SingleBracedField ==
    /\ pc = "entry_done"
    /\ Len(source_fields) = 1
    /\ \E e \in 3..Len(fields_text) : ClosesAt(fields_text, 2, e)

\* the text between the delimiting braces of that value
Interior ==
    Slice(fields_text, 3,
          (CHOOSE e \in 3..Len(fields_text) : ClosesAt(fields_text, 2, e)) - 1)

\* C5 as stated: only the delimiting pair is stripped, every brace of the
\* interior is retained.
C5_AsStated ==
    SingleBracedField
        => /\ Str(<<"t">>) \in DOMAIN fields
           /\ fields[Str(<<"t">>)] = NormaliseSpace(Interior)

\* C5 (amended): the stored value is the interior, whitespace-normalised,
\* without the brace pairs that enclose the whole value; braces that do not
\* enclose the whole value are retained.
C5_OuterBracesStripped ==
    SingleBracedField
        => /\ Str(<<"t">>) \in DOMAIN fields
           /\ fields[Str(<<"t">>)] = NormaliseSpace(WithoutEnclosingBraces(Interior))

\* title = {A {A} A} is stored as A {A} A
C5_Witness ==
    /\ SingleBracedField
    /\ Interior = Str(<<"A", " ", "{", "A", "}", " ", "A">>)
    /\ fields[Str(<<"t">>)] = Interior

\* the value that the field loop hands to _clean_bib_value for the single
\* field t=... of the entry
PassedValue == ParseBibValue(fields_text, 2)[1]

\* C21: the unwrap strips a leading '{' and a trailing '}' only when the first
\* '{' is matched by the last '}': the stored value is the value passed,
\* whitespace-normalised, without the brace pairs that enclose the whole of
\* it, and every other brace is kept.
C21_OnlyMatchedPairStripped ==
    (pc = "entry_done" /\ Len(source_fields) = 1 /\ Str(<<"t">>) \in DOMAIN fields)
        => fields[Str(<<"t">>)] = NormaliseSpace(WithoutEnclosingBraces(PassedValue))

\* C21 for the values whose braces balance
C21_BalancedValues ==
    (pc = "entry_done" /\ Len(source_fields) = 1 /\ Str(<<"t">>) \in DOMAIN fields
        /\ Balanced(PassedValue))
        => fields[Str(<<"t">>)] = NormaliseSpace(WithoutEnclosingBraces(PassedValue))

\* the claim's example: {A} {A}, whose first and last characters are braces
\* that do not match each other, keeps all its braces
C21_Example ==
    /\ pc = "entry_done"
    /\ Len(source_fields) = 1
    /\ PassedValue = Str(<<"{", "A", "}", " ", "{", "A", "}">>)
    /\ fields[Str(<<"t">>)] = PassedValue

\* the unclosed value {{{A}} is stored as {A: the second pass strips the
\* first brace of {{A}, which nothing closes, with the last one
C21_UnmatchedBraceStripped ==
    /\ pc = "entry_done"
    /\ Len(source_fields) = 1
    /\ PassedValue = Str(<<"{", "{", "{", "A", "}", "}">>)
    /\ fields[Str(<<"t">>)] = Str(<<"{", "A">>)

\* where index k of the text stands, read from index a on: <<number of
\* braces open, inside double quotes>>.  A double quote opens or closes a
\* quoted stretch where no brace is open, braces count outside quoted
\* stretches, and a '}' with no brace open closes nothing.
RECURSIVE LexState(_, _, _)
LexState(str, a, k) ==
    IF k <= a THEN <<0, FALSE>>
    ELSE LET before_ch == LexState(str, a, k - 1)
             ch == str[k]
         IN  IF ch = Ord["\""] /\ before_ch[1] = 0 THEN <<0, ~before_ch[2]>>
             ELSE IF before_ch[2] THEN before_ch
             ELSE IF ch = Ord["{"] THEN <<before_ch[1] + 1, FALSE>>
             ELSE IF ch = Ord["}"] /\ before_ch[1] > 0 THEN <<before_ch[1] - 1, FALSE>>
             ELSE before_ch

\* the commas after the entry's opening brace that lie at brace depth 0 and
\* outside double quotes
TopLevelCommas ==
    {k \in 3..(Len(entry_text) - 1) :
        entry_text[k + 1] = Ord[","] /\ LexState(entry_text, 3, k) = <<0, FALSE>>}

FirstTopLevelComma == CHOOSE k \in TopLevelCommas : \A h \in TopLevelCommas : k <= h

\* parse_entry has read the head of an entry text of free shape
KeyRead == pc \in {"fields", "entry_done"} /\ source_fields = <<>>

\* C22: the citation key is the text between the entry's opening '{' and the
\* first comma at brace depth 0 outside double quotes, trimmed; commas inside
\* braces or inside quotes do not end it, and the fields start after that
\* comma.
C22_KeyEndsAtTopLevelComma ==
    (KeyRead /\ TopLevelCommas # {})
        => /\ citation_key = Strip(Slice(entry_text, 3, FirstTopLevelComma))
           /\ fields_text = Slice(entry_text, FirstTopLevelComma + 1, Len(entry_text))

\* without such a comma the key is all that follows the opening brace
C22_KeyWithoutComma ==
    (KeyRead /\ TopLevelCommas = {})
        => /\ citation_key = Strip(Slice(entry_text, 3, Len(entry_text)))
           /\ fields_text = <<>>

\* @a{{,}",",k : the key is {,}",", with both inner commas, and k is left for
\* the fields
C22_Witness ==
    /\ KeyRead
    /\ entry_text = OpenHead \o Str(<<"{", ",", "}", "\"", ",", "\"", ",", "k">>)
    /\ citation_key = Str(<<"{", ",", "}", "\"", ",", "\"">>)
    /\ fields_text = Str(<<"k">>)

\* the field name written at position k, as the parser keys it
KeyOf(k) == Lower(Strip(source_fields[k][1]))

\* the last position at which the name of position k is written
LastOf(k) ==
    CHOOSE h \in DOMAIN source_fields :
        /\ KeyOf(h) = KeyOf(k)
        /\ \A g \in DOMAIN source_fields : KeyOf(g) = KeyOf(k) => g <= h

\* C7: a name written several times, in any letter case, has one key in the
\* mapping, the lowercased name, and maps to the value of its last occurrence.
C7_LastWriteWins ==
    (pc = "entry_done" /\ Len(source_fields) >= 2)
        => /\ DOMAIN fields = {KeyOf(k) : k \in DOMAIN source_fields}
           /\ \A k \in DOMAIN source_fields :
                  fields[KeyOf(k)] = Denotes[source_fields[LastOf(k)][2]]

\* t, T and t again, the first and the last with different values
C7_Witness ==
    /\ pc = "entry_done"
    /\ Len(source_fields) = 3
    /\ source_fields[1][1] = Str(<<"t">>)
    /\ source_fields[2][1] = Str(<<"T", " ">>)
    /\ source_fields[3][1] = Str(<<"t">>)
    /\ source_fields[1][2] # source_fields[3][2]
    /\ source_fields[2][2] # source_fields[3][2]
    /\ DOMAIN fields = {Str(<<"t">>)}
    /\ fields[Str(<<"t">>)] = Denotes[source_fields[3][2]]

----------------------------------------------------------------------------
(* DOI cleaning: zhang_metrics.clean_doi, readers' _clean_doi,             *)
(* bib2table.normalize_doi                                                 *)

\* Python's None, as a value comparable with strings
NoneVal == <<-1>>

\* truth value of a str-or-None
Truthy(x) == x # NoneVal /\ x # <<>>

IsDigit(c) == 48 <= c /\ c <= 57

IsHex(c) == IsDigit(c) \/ (65 <= c /\ c <= 70) \/ (97 <= c /\ c <= 102)

HexVal(c) == IF IsDigit(c) THEN c - 48 ELSE IF c >= 97 THEN c - 87 ELSE c - 55

\* urllib.parse.unquote: %XX becomes the character of that byte; a byte of
\* 0x80 and above that is not part of a UTF-8 sequence becomes U+FFFD
RECURSIVE Unquote(_, _)
Unquote(str, p) ==
    IF p >= Len(str) THEN <<>>
    ELSE IF /\ str[p + 1] = Ord["%"]
            /\ p + 2 < Len(str)
            /\ IsHex(str[p + 2]) /\ IsHex(str[p + 3])
    THEN LET byte == 16 * HexVal(str[p + 2]) + HexVal(str[p + 3])
         IN  <<IF byte < 128 THEN byte ELSE 65533>> \o Unquote(str, p + 3)
    ELSE <<str[p + 1]>> \o Unquote(str, p + 1)

RemoveChars(str, chars) == SelectSeq(str, LAMBDA c : c \notin chars)

StartsWith(str, pre) == Len(str) >= Len(pre) /\ SubSeq(str, 1, Len(pre)) = pre

\* str.replace(pat, ''), pat not empty
RECURSIVE RemoveAll(_, _)
RemoveAll(str, pat) ==
    IF str = <<>> THEN <<>>
    ELSE IF StartsWith(str, pat) THEN RemoveAll(SubSeq(str, Len(pat) + 1, Len(str)), pat)
    ELSE <<str[1]>> \o RemoveAll(Tail(str), pat)

\* str.replace("\n", " ")
NewlinesToSpaces(str) == [k \in 1..Len(str) |-> IF str[k] = Ord["\n"] THEN Ord[" "] ELSE str[k]]

\* the strings matched by ^https?://(dx\.)?doi\.org/ under re.I, lowercased
ResolverPrefixes(allow_dx) ==
    {Str(<<"h", "t", "t", "p", ":", "/", "/", "d", "o", "i", ".", "o", "r", "g", "/">>),
     Str(<<"h", "t", "t", "p", "s", ":", "/", "/", "d", "o", "i", ".", "o", "r", "g", "/">>)}
    \cup (IF allow_dx
          THEN {Str(<<"h", "t", "t", "p", ":", "/", "/", "d", "x", ".",
                      "d", "o", "i", ".", "o", "r", "g", "/">>),
                Str(<<"h", "t", "t", "p", "s", ":", "/", "/", "d", "x", ".",
                      "d", "o", "i", ".", "o", "r", "g", "/">>)}
          ELSE {})

\* re.sub of the resolver prefix at the start of the string, once
StripResolverPrefix(str, allow_dx) ==
    LET m == {pre \in ResolverPrefixes(allow_dx) : StartsWith(Lower(str), pre)}
    IN  IF m = {} THEN str
        ELSE SubSeq(str, Len(CHOOSE pre \in m : TRUE) + 1, Len(str))

\* re.sub(r"[...]+$", "", s): drop the trailing run of the given characters
StripTrailing(str, chars) ==
    LET keep == {k \in 1..Len(str) : str[k] \notin chars}
    IN  IF keep = {} THEN <<>>
        ELSE SubSeq(str, 1, CHOOSE k \in keep : \A h \in keep : k >= h)

TrailingPunctuation == {Ord["]"], Ord[")"], Ord["."], Ord[";"], Ord[","]}

\* variant of MatchesDoiRe that asks for two to nine digits
MatchesDoiReTwoDigits(str) ==
    /\ StartsWith(str, Str(<<"1", "0", ".">>))
    /\ \E n \in 2..9 :
           /\ Len(str) >= 3 + n + 2
           /\ \A k \in 4..(3 + n) : IsDigit(str[k])
           /\ str[4 + n] = Ord["/"]
           /\ \A k \in (5 + n)..Len(str) : ~IsSpace(str[k])

\* DOI_RE = ^10\.\d{4,9}/\S+$
MatchesDoiRe(str) ==
    /\ StartsWith(str, Str(<<"1", "0", ".">>))
    /\ \E n \in 4..9 :
           /\ Len(str) >= 3 + n + 2
           /\ \A k \in 4..(3 + n) : IsDigit(str[k])
           /\ str[4 + n] = Ord["/"]
           /\ \A k \in (5 + n)..Len(str) : ~IsSpace(str[k])

\* variant of CleanDoi without the final lower()
CleanDoiKeepCase(doi) ==
    IF ~Truthy(doi) THEN NoneVal
    ELSE LET s1 == Unquote(doi, 0)
             s2 == RemoveChars(s1, {8203, 8204, 8205})
             s3 == RemoveChars(s2, WhitespaceChars)
             s4 == StripResolverPrefix(s3, TRUE)
             s5 == Strip(StripTrailing(s4, TrailingPunctuation))
         IN  IF ~MatchesDoiRe(s5) THEN NoneVal ELSE s5

\* zhang_metrics.clean_doi
CleanDoi(doi) ==
    IF ~Truthy(doi) THEN NoneVal
    ELSE LET s1 == Unquote(doi, 0)
             s2 == RemoveChars(s1, {8203, 8204, 8205})
             s3 == RemoveChars(s2, WhitespaceChars)
             s4 == StripResolverPrefix(s3, TRUE)
             s5 == Strip(StripTrailing(s4, TrailingPunctuation))
         IN  IF ~MatchesDoiRe(s5) THEN NoneVal ELSE Lower(s5)

\* readers/bib_reader._clean_doi
BibReaderCleanDoi(doi) ==
    IF ~Truthy(doi) THEN NoneVal
    ELSE LET d == StripResolverPrefix(Strip(doi), FALSE)
         IN  IF d = <<>> THEN NoneVal ELSE d

\* readers/csv_reader._clean_doi
CsvReaderCleanDoi(doi) ==
    IF ~Truthy(doi) THEN NoneVal
    ELSE LET s1 == NewlinesToSpaces(Strip(doi))
             s2 == StripResolverPrefix(s1, TRUE)
             s3 == Strip(StripTrailing(s2, TrailingPunctuation \cup WhitespaceChars))
         IN  IF ~MatchesDoiRe(s3) THEN NoneVal ELSE Lower(s3)

\* bib2table.normalize_doi
NormalizeDoi(raw_doi) ==
    IF ~Truthy(raw_doi) THEN <<>>
    ELSE LET d1 == RemoveAll(Strip(raw_doi), Str(<<"\\", "u", "r", "l", "{">>))
             d2 == RemoveAll(d1, Str(<<"}">>))
         IN  Strip(StripResolverPrefix(d2, TRUE))

MaxDoiPieces == 4

DoiPieces ==
    {Str(<<"1", "0", ".", "1", "2", "3", "4", "/">>),
     Str(<<"x">>), Str(<<"X">>), Str(<<".">>), Str(<<" ">>),
     Str(<<"%", "2", "5">>), Str(<<"4", "1">>),
     Str(<<"h", "t", "t", "p", "s", ":", "/", "/", "d", "o", "i", ".", "o", "r", "g", "/">>),
     Str(<<"H", "T", "T", "P", ":", "/", "/", "D", "X", ".", "D", "O", "I", ".", "O", "R", "G", "/">>),
     Str(<<"\\", "u", "r", "l", "{">>), Str(<<"}">>)}

DoiInputs ==
    {NoneVal} \cup {Concat(ps) : ps \in UNION {[1..m -> DoiPieces] : m \in 0..MaxDoiPieces}}

InitDoi ==
    /\ doi_raw \in DoiInputs
    /\ routine = ""
    /\ once = <<>>
    /\ twice = <<>>
    /\ pc = "doi"
    /\ IdleSplit /\ IdleValue /\ IdleEntry /\ IdleMetrics /\ IdleReport /\ IdleProviders

ApplyCleanDoi ==
    /\ pc = "doi"
    /\ routine' = "zhang_metrics.clean_doi"
    /\ once' = CleanDoi(doi_raw)
    /\ twice' = CleanDoi(CleanDoi(doi_raw))
    /\ pc' = "doi_done"
    /\ UNCHANGED <<doi_raw, splitVars, valueVars, entryVars, metricVars, reportVars, providerVars>>

ApplyBibReaderCleanDoi ==
    /\ pc = "doi"
    /\ routine' = "bib_reader._clean_doi"
    /\ once' = BibReaderCleanDoi(doi_raw)
    /\ twice' = BibReaderCleanDoi(BibReaderCleanDoi(doi_raw))
    /\ pc' = "doi_done"
    /\ UNCHANGED <<doi_raw, splitVars, valueVars, entryVars, metricVars, reportVars, providerVars>>

ApplyCsvReaderCleanDoi ==
    /\ pc = "doi"
    /\ routine' = "csv_reader._clean_doi"
    /\ once' = CsvReaderCleanDoi(doi_raw)
    /\ twice' = CsvReaderCleanDoi(CsvReaderCleanDoi(doi_raw))
    /\ pc' = "doi_done"
    /\ UNCHANGED <<doi_raw, splitVars, valueVars, entryVars, metricVars, reportVars, providerVars>>

ApplyNormalizeDoi ==
    /\ pc = "doi"
    /\ routine' = "bib2table.normalize_doi"
    /\ once' = NormalizeDoi(doi_raw)
    /\ twice' = NormalizeDoi(NormalizeDoi(doi_raw))
    /\ pc' = "doi_done"
    /\ UNCHANGED <<doi_raw, splitVars, valueVars, entryVars, metricVars, reportVars, providerVars>>

NextDoi ==
    \/ ApplyCleanDoi
    \/ ApplyBibReaderCleanDoi
    \/ ApplyCsvReaderCleanDoi
    \/ ApplyNormalizeDoi

SpecDoi == InitDoi /\ [][NextDoi]_vars

----------------------------------------------------------------------------
(* Properties of DOI cleaning *)

\* C8: cleaning a cleaned DOI changes nothing, for each of the routines.
C8_Idempotent == pc = "doi_done" => twice = once

\* C8 restricted to single routines
C8_IdempotentCleanDoi ==
    (pc = "doi_done" /\ routine = "zhang_metrics.clean_doi") => twice = once

C8_IdempotentBibReader ==
    (pc = "doi_done" /\ routine = "bib_reader._clean_doi") => twice = once

C8_IdempotentCsvReader ==
    (pc = "doi_done" /\ routine = "csv_reader._clean_doi") => twice = once

C8_IdempotentNormalizeDoi ==
    (pc = "doi_done" /\ routine = "bib2table.normalize_doi") => twice = once

----------------------------------------------------------------------------
(* Identity assignment: fallback_id, parse_bib_dir, parse_csv_dir          *)

MaxRecords == 2

\* hashlib.sha1(base).hexdigest(), taken as collision-free: a digest is
\* represented by the tagged text it was computed from
Sha1Hex(base) == <<-2>> \o base

\* fallback_id(title, year)
FallbackId(title, year) ==
    LET tt == Lower(Strip(IF Truthy(title) THEN title ELSE <<>>))
        y == IF Truthy(year) THEN Strip(year) ELSE <<>>
    IN  Str(<<"t", "t", "l", "Y", ":">>) \o Sha1Hex(tt \o Str(<<"|", "|">>) \o y)

\* a or b of Python
PyOr(a, b) == IF Truthy(a) THEN a ELSE b

\* _get_row_val for one present column: the stripped text, None when empty
GetRowVal(v) == IF v = NoneVal \/ Strip(v) = <<>> THEN NoneVal ELSE Strip(v)

\* lines 174-187 and 99-113: identity of one record and the updated
\* <<retrieved_ids, retrieved_dois, detail>>
Collect(doi_field, title, year, file, ids, dois, det) ==
    LET doi == CleanDoi(doi_field)
        cid == IF Truthy(doi) THEN Str(<<"d", "o", "i", ":">>) \o doi
               ELSE FallbackId(title, year)
    IN  <<ids \cup {cid},
          IF Truthy(doi) THEN dois \cup {doi} ELSE dois,
          Append(det, [id |-> cid, doi |-> doi, title |-> title, year |-> year,
                       source_file |-> file])>>

\* the valid DOIs written in the inputs, in canonical form
CanonicalDois ==
    {Str(<<"1", "0", ".", "1", "2", "3", "4", "/", "x">>),
     Str(<<"1", "0", ".", "1", "2", "3", "4", "/", "y">>)}

\* str.upper() on the ASCII range
Upper(str) == [k \in 1..Len(str) |-> IF 97 <= str[k] /\ str[k] <= 122 THEN str[k] - 32 ELSE str[k]]

\* the ways a DOI d is written in a raw field
Spellings(d) ==
    {d, Upper(d),
     Str(<<"h", "t", "t", "p", "s", ":", "/", "/", "d", "o", "i", ".", "o", "r", "g", "/">>) \o d,
     Str(<<"H", "T", "T", "P", ":", "/", "/", "D", "X", ".", "D", "O", "I", ".", "O", "R", "G", "/">>)
         \o Upper(d)}

\* raw fields that hold no valid DOI: absent, or too few digits after "10."
NoDoiFields == {NoneVal, Str(<<"1", "0", ".", "1", "2", "/", "x">>)}

Titles ==
    {Str(<<"a", " ", "b">>), Str(<<"A", " ", "b", " ">>), Str(<<"a", " ", " ", "b">>)}

Years == {Str(<<"2", "0", "2", "0">>), Str(<<"2", "0", "2", "1">>)}

\* title and year of the records without DOI: the titles above with each year,
\* records without year or without both, and two records whose title or year
\* holds the text "||"
TitleYearPairs ==
    (Titles \X Years)
    \cup {<<NoneVal, NoneVal>>, <<Str(<<"a", " ", "b">>), NoneVal>>,
          <<Str(<<"a">>), Str(<<"b", "|", "|", "2", "0", "2", "0">>)>>,
          <<Str(<<"a", "|", "|", "b">>), Str(<<"2", "0", "2", "0">>)>>}

\* a record as read: its raw DOI field, the canonical DOI that field denotes
\* (None when it denotes none), title and year
RecordInputs ==
    {rec \in [raw_doi : UNION {Spellings(d) : d \in CanonicalDois},
              denotes : CanonicalDois,
              title : {Str(<<"a">>)}, year : {Str(<<"2", "0", "2", "0">>)}] :
        rec.raw_doi \in Spellings(rec.denotes)}
    \cup {[raw_doi |-> f, denotes |-> NoneVal, title |-> ty[1], year |-> ty[2]] :
              f \in NoDoiFields, ty \in TitleYearPairs}

InitMetrics ==
    /\ source_kind \in {"bib", "csv"}
    /\ raw_records = <<>>
    /\ retrieved_ids = {}
    /\ retrieved_dois = {}
    /\ detail = <<>>
    /\ pc = "retrieve"
    /\ IdleSplit /\ IdleValue /\ IdleEntry /\ IdleDoi /\ IdleReport /\ IdleProviders

\* parse_bib_dir, lines 170-187: one entry of db.entries; the DOI is stored
\* under the key "doi" or under the key "DOI"
BibEntry ==
    /\ pc = "retrieve"
    /\ source_kind = "bib"
    /\ Len(detail) < MaxRecords
    /\ \E rec \in RecordInputs, key \in {"doi", "DOI"} :
           LET e == [doi |-> IF key = "doi" THEN rec.raw_doi ELSE NoneVal,
                     DOI |-> IF key = "DOI" THEN rec.raw_doi ELSE NoneVal,
                     title |-> rec.title, year |-> rec.year]
               r == Collect(PyOr(e.doi, e.DOI), e.title, e.year, "results.bib",
                            retrieved_ids, retrieved_dois, detail)
           IN  /\ retrieved_ids' = r[1]
               /\ retrieved_dois' = r[2]
               /\ detail' = r[3]
               /\ raw_records' = Append(raw_records, rec)
    /\ UNCHANGED <<pc, source_kind, splitVars, valueVars, entryVars, doiVars, reportVars, providerVars>>

\* parse_csv_dir, lines 96-113: one row of the reader
CsvRow ==
    /\ pc = "retrieve"
    /\ source_kind = "csv"
    /\ Len(detail) < MaxRecords
    /\ \E rec \in RecordInputs :
           LET r == Collect(GetRowVal(rec.raw_doi), GetRowVal(rec.title),
                            GetRowVal(rec.year), "results.csv",
                            retrieved_ids, retrieved_dois, detail)
           IN  /\ retrieved_ids' = r[1]
               /\ retrieved_dois' = r[2]
               /\ detail' = r[3]
               /\ raw_records' = Append(raw_records, rec)
    /\ UNCHANGED <<pc, source_kind, splitVars, valueVars, entryVars, doiVars, reportVars, providerVars>>

NextMetrics == BibEntry \/ CsvRow

SpecMetrics == InitMetrics /\ [][NextMetrics]_vars

----------------------------------------------------------------------------
(* Properties of identity assignment *)

\* C9: every record whose raw DOI field denotes the valid DOI d, in whatever
\* letter case, with or without resolver prefix, from a .bib entry or a CSV
\* row, has the identity "doi:" + d, and the records denoting d add the one
\* element d to the retrieved-DOI set.
C9_SameDoiSameIdentity ==
    /\ \A k \in DOMAIN detail :
           raw_records[k].denotes # NoneVal
               => /\ detail[k].id = Str(<<"d", "o", "i", ":">>) \o raw_records[k].denotes
                  /\ detail[k].id \in retrieved_ids
    /\ retrieved_dois =
           {raw_records[k].denotes : k \in DOMAIN detail} \ {NoneVal}

\* two records that spell one DOI differently
C9_Witness ==
    /\ Len(detail) = 2
    /\ raw_records[1].denotes # NoneVal
    /\ raw_records[1].denotes = raw_records[2].denotes
    /\ raw_records[1].raw_doi = raw_records[1].denotes
    /\ raw_records[2].raw_doi # Lower(raw_records[2].raw_doi)
    /\ ~StartsWith(raw_records[2].raw_doi, Str(<<"1", "0">>))
    /\ Cardinality(retrieved_dois) = 1
    /\ Cardinality(retrieved_ids) = 1

\* a title with its letter case folded, whitespace runs collapsed, ends trimmed
NormalisedTitle(title) ==
    Lower(Strip(SubSpaces(IF Truthy(title) THEN title ELSE <<>>, 0)))

\* C10: two records without a valid DOI have the same identity exactly when
\* their titles agree after case and whitespace normalisation and their years
\* are equal.
C10_FallbackCollision ==
    \A a, b \in DOMAIN detail :
        (~Truthy(detail[a].doi) /\ ~Truthy(detail[b].doi))
            => (detail[a].id = detail[b].id
                    <=> /\ NormalisedTitle(raw_records[a].title)
                            = NormalisedTitle(raw_records[b].title)
                        /\ raw_records[a].year = raw_records[b].year)

\* the reading of C10 in which whitespace normalisation is trimming alone
C10_TrimmedTitleAndYear ==
    \A a, b \in DOMAIN detail :
        (~Truthy(detail[a].doi) /\ ~Truthy(detail[b].doi))
            => (detail[a].id = detail[b].id
                    <=> /\ Lower(Strip(PyOr(raw_records[a].title, <<>>)))
                            = Lower(Strip(PyOr(raw_records[b].title, <<>>)))
                        /\ raw_records[a].year = raw_records[b].year)

----------------------------------------------------------------------------
(* compute_metrics over a directory of result files: parse_bib_dir,        *)
(* parse_csv_dir, load_relevant, the report and _summarize_duplicates      *)

MaxDirRecords == 5
MaxFiles == 2

\* the separators of re.split(r"[\s,]+", ...)
IsSeparator(c) == IsSpace(c) \/ c = Ord[","]

\* re.split(r"[\s,]+", str), scanning from the 0-based cursor p with the
\* token tok under construction
RECURSIVE SplitTargets(_, _, _)
SplitTargets(str, p, tok) ==
    IF p >= Len(str) THEN <<tok>>
    ELSE IF IsSeparator(str[p + 1])
    THEN LET rest == {q \in (p + 1)..(Len(str) - 1) : ~IsSeparator(str[q + 1])}
             q == IF rest = {} THEN Len(str)
                  ELSE CHOOSE q \in rest : \A h \in rest : q <= h
         IN  <<tok>> \o SplitTargets(str, q, <<>>)
    ELSE SplitTargets(str, p + 1, Append(tok, str[p + 1]))

\* load_relevant with args.targets_dois given
LoadRelevant(targets) ==
    LET toks == SplitTargets(targets, 0, <<>>)
    IN  {CleanDoi(toks[k]) : k \in DOMAIN toks} \ {NoneVal}

\* a < b in Python's ordering of strings
LexLess(a, b) ==
    \E k \in 1..(Len(b)) :
        /\ \A h \in 1..(k - 1) : h <= Len(a) /\ a[h] = b[h]
        /\ (k > Len(a) \/ (k <= Len(a) /\ a[k] < b[k]))

\* sorted(S) for a set of strings
RECURSIVE Sorted(_)
Sorted(S) ==
    IF S = {} THEN <<>>
    ELSE LET m == CHOOSE x \in S : \A y \in S \ {x} : LexLess(x, y)
         IN  <<m>> \o Sorted(S \ {m})

\* d[key] = d.get(key, 0) + 1 on a dict kept as the sequence of its
\* <<key, value>> items in insertion order
DictCount(d, key) ==
    IF \E k \in DOMAIN d : d[k][1] = key
    THEN [k \in DOMAIN d |-> IF d[k][1] = key THEN <<key, d[k][2] + 1>> ELSE d[k]]
    ELSE Append(d, <<key, 1>>)

\* the loop of _summarize_duplicates, lines 300-306, from detail[k] on
RECURSIVE CountGroups(_, _, _, _, _)
CountGroups(det, k, by_id, by_doi, by_fb) ==
    IF k > Len(det) THEN <<by_id, by_doi, by_fb>>
    ELSE LET cid == det[k].id
             doi == det[k].doi
         IN  CountGroups(det, k + 1, DictCount(by_id, cid),
                 IF Truthy(doi) THEN DictCount(by_doi, doi) ELSE by_doi,
                 IF ~Truthy(doi) /\ Truthy(cid) /\ StartsWith(cid, Str(<<"t", "t", "l", "Y", ":">>))
                 THEN DictCount(by_fb, cid) ELSE by_fb)

\* {k: v for k, v in d.items() if v > 1}
MoreThanOnce(d) == SelectSeq(d, LAMBDA e : e[2] > 1)

\* variant of SumCollapsed that adds up the counts themselves
RECURSIVE SumCounts(_)
SumCounts(d) == IF d = <<>> THEN 0 ELSE Head(d)[2] + SumCounts(Tail(d))

\* sum(v - 1 for v in d.values())
RECURSIVE SumCollapsed(_)
SumCollapsed(d) == IF d = <<>> THEN 0 ELSE (Head(d)[2] - 1) + SumCollapsed(Tail(d))

\* sorted(([k, v] for k, v in d.items()), key=lambda x: -x[1]): a stable sort,
\* items of equal count keep their insertion order; c is the largest count left
RECURSIVE SortByCountDesc(_, _)
SortByCountDesc(d, c) ==
    IF c < 1 THEN <<>>
    ELSE SelectSeq(d, LAMBDA e : e[2] = c) \o SortByCountDesc(d, c - 1)

\* variant of SummarizeDuplicates that counts the records of the duplicated
\* identities instead of the records collapsed
SummarizeDuplicatesCountingAll(det) ==
    LET g == CountGroups(det, 1, <<>>, <<>>, <<>>)
    IN  [duplicates_collapsed_total |-> SumCollapsed(MoreThanOnce(g[1])) + Len(MoreThanOnce(g[1])),
         duplicates_by_doi |-> SortByCountDesc(MoreThanOnce(g[2]), Len(det)),
         duplicates_by_fallback |-> SortByCountDesc(MoreThanOnce(g[3]), Len(det))]

\* _summarize_duplicates
SummarizeDuplicates(det) ==
    LET g == CountGroups(det, 1, <<>>, <<>>, <<>>)
    IN  [duplicates_collapsed_total |-> SumCollapsed(MoreThanOnce(g[1])),
         duplicates_by_doi |-> SortByCountDesc(MoreThanOnce(g[2]), Len(det)),
         duplicates_by_fallback |-> SortByCountDesc(MoreThanOnce(g[3]), Len(det))]

\* (num / den) * 100.0 as the fraction <<numerator, denominator>>
Percent(num, den) == <<num * 100, den>>

\* round(q, 2) of a percentage q, in hundredths of a percent (5000 is 50.0)
Round2(q) == (200 * q[1] + q[2]) \div (2 * q[2])

\* variant of Recall that leaves the fraction unscaled
RecallAsFraction(TER, ER) == IF ER = 0 THEN <<0, 1>> ELSE <<TER, ER>>

\* line 261: RC, the recall in percent
Recall(TER, ER) == IF ER = 0 THEN <<0, 1>> ELSE Percent(TER, ER)

\* line 262: EF, the precision in percent
Precision(TER, TE) == IF TE = 0 THEN <<0, 1>> ELSE Percent(TER, TE)

\* variant of StudiesRetrieved that counts the raw records
StudiesRetrievedRaw(ids, det) == Len(det)

\* line 252: TE
StudiesRetrieved(ids, det) == Cardinality(ids)

\* variant of FalsePositives with the operands exchanged
FalsePositivesSwapped(relevant, dois) == relevant \ dois

\* line 259: FP
FalsePositives(relevant, dois) == dois \ relevant

\* compute_metrics, lines 250-287: the report dict, from the results of the
\* directory parse and the relevant set; percentages are in hundredths
Report(ids, dois, det, relevant) ==
    LET ID == Len(det)
        TE == StudiesRetrieved(ids, det)
        TE_doi == Cardinality(dois)
        ER == Cardinality(relevant)
        TER_dois == relevant \cap dois
        TER == Cardinality(TER_dois)
        FN == relevant \ dois
        FP == FalsePositives(relevant, dois)
        RC == Recall(TER, ER)
        EF == Precision(TER, TE)
    IN  [CB |-> NoneVal, ID |-> ID, TE |-> TE, TE_doi |-> TE_doi, ER |-> ER, TER |-> TER,
         EF_percent |-> Round2(EF), RC_percent |-> Round2(RC),
         TP_dois |-> Sorted(TER_dois), FN_dois |-> Sorted(FN), FP_dois |-> Sorted(FP),
         total_relevant |-> ER, relevant_retrieved |-> TER, studies_retrieved |-> TE,
         sensitivity_percent |-> Round2(RC), precision_percent |-> Round2(EF),
         retrieved_counts |-> [unique_ids_total |-> TE, unique_dois_total |-> TE_doi],
         duplicates |-> SummarizeDuplicates(det)]

\* the records written in the result files: a DOI behind a resolver prefix and
\* in upper case, a DOI broken by a space, and a record whose DOI field has
\* too few digits after "10."
ReportRecordList ==
    <<[raw_doi |-> Str(<<"h", "t", "t", "p", "s", ":", "/", "/", "d", "o", "i", ".", "o", "r", "g", "/",
                         "1", "0", ".", "1", "2", "3", "4", "/", "X">>),
       denotes |-> Str(<<"1", "0", ".", "1", "2", "3", "4", "/", "x">>),
       title |-> Str(<<"a">>), year |-> Str(<<"2", "0", "2", "0">>)],
      [raw_doi |-> Str(<<"1", "0", ".", "1", "2", "3", "4", "/", " ", "y">>),
       denotes |-> Str(<<"1", "0", ".", "1", "2", "3", "4", "/", "y">>),
       title |-> Str(<<"a">>), year |-> Str(<<"2", "0", "2", "0">>)],
      [raw_doi |-> Str(<<"1", "0", ".", "1", "2", "/", "x">>), denotes |-> NoneVal,
       title |-> Str(<<"A", " ", "b", " ">>), year |-> Str(<<"2", "0", "2", "0">>)]>>

ReportRecords == {ReportRecordList[k] : k \in DOMAIN ReportRecordList}

\* files[1..n] cut at the 0-based positions cuts[1] <= cuts[2] <= ... into
\* Len(cuts) + 1 files
CutAt(recs, cuts) ==
    [k \in 1..(Len(cuts) + 1) |->
        Slice(recs, IF k = 1 THEN 0 ELSE cuts[k - 1],
                    IF k > Len(cuts) THEN Len(recs) ELSE cuts[k])]

\* the directories: no file, or at most MaxDirRecords records in listing
\* order, cut into 1..MaxFiles files (a file may hold no record)
Directories ==
    {<<>>} \cup
    UNION {UNION {{CutAt(recs, cuts) :
                      cuts \in {c \in [1..(n - 1) -> 0..Len(recs)] :
                                   \A k \in 1..(n - 2) : c[k] <= c[k + 1]}} :
                  n \in 1..MaxFiles} :
           recs \in StringsUpTo(ReportRecords, MaxDirRecords)}

\* values of --targets-dois: one token that is no DOI, two DOIs, and three
\* DOIs with both separators
TargetInputs ==
    {Str(<<"1", "0", ".", "1", "2", "/", "x">>),
     Str(<<"1", "0", ".", "1", "2", "3", "4", "/", "x", " ",
           "1", "0", ".", "1", "2", "3", "4", "/", "z">>),
     Str(<<"1", "0", ".", "1", "2", "3", "4", "/", "X", ",", " ",
           "1", "0", ".", "1", "2", "3", "4", "/", "y", ",",
           "1", "0", ".", "1", "2", "3", "4", "/", "z">>)}

\* the dict bibtexparser builds for an entry: field names in lower case
BibEntryDict(rec) ==
    [doi |-> rec.raw_doi, DOI |-> NoneVal, title |-> rec.title, year |-> rec.year]

\* parse_bib_dir, lines 169-187: the loop over db.entries, from entry k on
\* with acc = <<retrieved_ids, retrieved_dois, detail>>
RECURSIVE CollectEntries(_, _, _, _)
CollectEntries(ents, k, name, acc) ==
    IF k > Len(ents) THEN acc
    ELSE LET e == BibEntryDict(ents[k])
         IN  CollectEntries(ents, k + 1, name,
                 Collect(PyOr(e.doi, e.DOI), e.title, e.year, name, acc[1], acc[2], acc[3]))

\* parse_csv_dir, lines 96-115: the loop over the rows, from row k on
\* with acc = <<retrieved_ids, retrieved_dois, detail>>
RECURSIVE CollectRows(_, _, _, _)
CollectRows(rows, k, name, acc) ==
    IF k > Len(rows) THEN acc
    ELSE CollectRows(rows, k + 1, name,
             Collect(GetRowVal(rows[k].raw_doi), GetRowVal(rows[k].title),
                     GetRowVal(rows[k].year), name, acc[1], acc[2], acc[3]))

\* bibtexparser.load(f, parser=parser), lines 155-167: the one parser object
\* made before the loop keeps one database; each load appends the entries of
\* the file to it and returns it
LoadBib(db, file) == db \o file

\* parse_bib_dir: the loop over the listing, from file k on; db is the
\* database of the parser before the file is loaded
RECURSIVE ParseBibDir(_, _, _, _)
ParseBibDir(files, k, db, acc) ==
    IF k > Len(files) THEN acc
    ELSE ParseBibDir(files, k + 1, LoadBib(db, files[k]),
             CollectEntries(LoadBib(db, files[k]), 1, k, acc))

\* parse_csv_dir: the loop over the listing, from file k on
RECURSIVE ParseCsvDir(_, _, _)
ParseCsvDir(files, k, acc) ==
    IF k > Len(files) THEN acc
    ELSE ParseCsvDir(files, k + 1, CollectRows(files[k], 1, k, acc))

\* lines 247-287 on the parse results r = <<retrieved_ids, retrieved_dois, detail>>
ReportOn(r, targets) ==
    [retrieved_ids |-> r[1], retrieved_dois |-> r[2],
     report |-> Report(r[1], r[2], r[3], LoadRelevant(targets))]

\* compute_metrics for a whole directory: identities, DOIs and report
ComputeMetrics(kind, files, targets) ==
    ReportOn(IF kind = "bib" THEN ParseBibDir(files, 1, <<>>, <<{}, {}, <<>> >>)
             ELSE ParseCsvDir(files, 1, <<{}, {}, <<>> >>), targets)

InitReport ==
    /\ source_kind \in {"bib", "csv"}
    /\ dir_files \in Directories
    /\ targets_dois = <<>>
    /\ file_index = 0
    /\ db_entries = <<>>
    /\ relevant_dois = {}
    /\ report = <<>>
    /\ raw_records = <<>>
    /\ retrieved_ids = {}
    /\ retrieved_dois = {}
    /\ detail = <<>>
    /\ pc = "parse_dir"
    /\ IdleSplit /\ IdleValue /\ IdleEntry /\ IdleDoi /\ IdleProviders

\* parse_bib_dir, lines 163-187: one file of the listing
ReadBibFile ==
    /\ pc = "parse_dir"
    /\ source_kind = "bib"
    /\ file_index < Len(dir_files)
    /\ db_entries' = LoadBib(db_entries, dir_files[file_index + 1])
    /\ \E r \in {CollectEntries(db_entries', 1, file_index + 1,
                                 <<retrieved_ids, retrieved_dois, detail>>)} :
           /\ retrieved_ids' = r[1]
           /\ retrieved_dois' = r[2]
           /\ detail' = r[3]
    /\ raw_records' = raw_records \o db_entries'
    /\ file_index' = file_index + 1
    /\ UNCHANGED <<pc, source_kind, dir_files, targets_dois, relevant_dois, report,
                   splitVars, valueVars, entryVars, doiVars, providerVars>>

\* parse_csv_dir, lines 73-117: one file of the listing
ReadCsvFile ==
    /\ pc = "parse_dir"
    /\ source_kind = "csv"
    /\ file_index < Len(dir_files)
    /\ \E r \in {CollectRows(dir_files[file_index + 1], 1, file_index + 1,
                              <<retrieved_ids, retrieved_dois, detail>>)} :
           /\ retrieved_ids' = r[1]
           /\ retrieved_dois' = r[2]
           /\ detail' = r[3]
    /\ raw_records' = raw_records \o dir_files[file_index + 1]
    /\ file_index' = file_index + 1
    /\ UNCHANGED <<pc, source_kind, dir_files, db_entries, targets_dois, relevant_dois,
                   report, splitVars, valueVars, entryVars, doiVars, providerVars>>

\* compute_metrics, lines 247-287, once the directory is parsed
ComputeReport ==
    /\ pc = "parse_dir"
    /\ file_index = Len(dir_files)
    /\ \E targets \in TargetInputs :
           /\ targets_dois' = targets
           /\ relevant_dois' = LoadRelevant(targets)
           /\ report' = Report(retrieved_ids, retrieved_dois, detail, relevant_dois')
    /\ pc' = "report_done"
    /\ UNCHANGED <<source_kind, raw_records, retrieved_ids, retrieved_dois, detail,
                   dir_files, file_index, db_entries,
                   splitVars, valueVars, entryVars, doiVars, providerVars>>

NextReport == ReadBibFile \/ ReadCsvFile \/ ComputeReport

SpecReport == InitReport /\ [][NextReport]_vars

----------------------------------------------------------------------------
(* Properties of the report *)

\* the elements of a list
Range(seq) == {seq[k] : k \in DOMAIN seq}

\* |relevant /\ retrieved_dois|, from the sets compute_metrics was given
Hits == Cardinality(relevant_dois \cap retrieved_dois)

\* C11 as stated: the reported recall is exactly
\* |relevant /\ retrieved_dois| / |relevant| x 100, and 0.0 for an empty
\* relevant set (RC_percent is in hundredths of a percent).
C11_AsStated ==
    pc = "report_done" =>
        IF relevant_dois = {} THEN report.RC_percent = 0
        ELSE report.RC_percent * Cardinality(relevant_dois) = 100 * 100 * Hits

\* C11 as amended: the reported recall is |relevant /\ retrieved_dois| /
\* |relevant| x 100 rounded to two decimals (it differs from the quotient by
\* at most half a hundredth), and 0.0 for an empty relevant set; the same
\* number is reported as sensitivity_percent.
C11_RecallRounded ==
    pc = "report_done" =>
        /\ report.sensitivity_percent = report.RC_percent
        /\ IF relevant_dois = {} THEN report.RC_percent = 0
           ELSE LET ER == Cardinality(relevant_dois)
                    off == report.RC_percent * ER - 100 * 100 * Hits
                IN  2 * off <= ER /\ -2 * off <= ER

\* one of three relevant DOIs retrieved: recall 33.33
C11_Witness ==
    /\ pc = "report_done"
    /\ Cardinality(relevant_dois) = 3
    /\ Hits = 1
    /\ report.RC_percent = 3333

\* the example of the claim, with well-formed DOIs: two relevant, two
\* retrieved, one in common, recall 50.0
C11_Example ==
    /\ pc = "report_done"
    /\ Cardinality(relevant_dois) = 2
    /\ Cardinality(retrieved_dois) = 2
    /\ Hits = 1
    /\ report.RC_percent = 5000

\* an empty relevant set with DOIs retrieved: recall 0.0
C11_EmptyRelevant ==
    /\ pc = "report_done"
    /\ relevant_dois = {}
    /\ retrieved_dois # {}
    /\ report.RC_percent = 0

\* C12 as stated: the reported precision is exactly
\* |relevant /\ retrieved_dois| / |retrieved_identities| x 100, and 0.0 when
\* no identity was retrieved.
C12_AsStated ==
    pc = "report_done" =>
        IF retrieved_ids = {} THEN report.EF_percent = 0
        ELSE report.EF_percent * Cardinality(retrieved_ids) = 100 * 100 * Hits

\* C12 as amended: the reported precision is |relevant /\ retrieved_dois| /
\* |retrieved_identities| x 100 rounded to two decimals, the denominator being
\* the number of distinct identities (DOI-keyed and fallback), and 0.0 when no
\* identity was retrieved; the same number is reported as precision_percent.
C12_PrecisionRounded ==
    pc = "report_done" =>
        /\ report.precision_percent = report.EF_percent
        /\ report.TE = Cardinality({detail[k].id : k \in DOMAIN detail})
        /\ IF retrieved_ids = {} THEN report.EF_percent = 0
           ELSE LET TE == Cardinality(retrieved_ids)
                    off == report.EF_percent * TE - 100 * 100 * Hits
                IN  2 * off <= TE /\ -2 * off <= TE

\* three identities (two DOIs, one fallback) from more than three records,
\* one relevant DOI retrieved: precision 33.33
C12_Witness ==
    /\ pc = "report_done"
    /\ Cardinality(retrieved_ids) = 3
    /\ Cardinality(retrieved_dois) = 2
    /\ Len(detail) > 3
    /\ Hits = 1
    /\ report.EF_percent = 3333

\* nothing retrieved, relevant set not empty: precision 0.0
C12_NothingRetrieved ==
    /\ pc = "report_done"
    /\ retrieved_ids = {}
    /\ relevant_dois # {}
    /\ report.EF_percent = 0

\* C13: the reported TP, FN and FP lists hold, without repetition, exactly
\* relevant /\ retrieved_dois, relevant \ retrieved_dois and
\* retrieved_dois \ relevant; so TP and FN are disjoint and make up the
\* relevant set, TP and FP are disjoint and make up the retrieved-DOI set.
C13_Partition ==
    pc = "report_done" =>
        LET TP == Range(report.TP_dois)
            FN == Range(report.FN_dois)
            FP == Range(report.FP_dois)
        IN  /\ TP = relevant_dois \cap retrieved_dois
            /\ FN = relevant_dois \ retrieved_dois
            /\ FP = retrieved_dois \ relevant_dois
            /\ Len(report.TP_dois) = Cardinality(TP)
            /\ Len(report.FN_dois) = Cardinality(FN)
            /\ Len(report.FP_dois) = Cardinality(FP)
            /\ TP \cap FN = {} /\ TP \cup FN = relevant_dois
            /\ TP \cap FP = {} /\ TP \cup FP = retrieved_dois
            /\ retrieved_dois = {raw_records[k].denotes : k \in DOMAIN raw_records} \ {NoneVal}

\* a report in which none of the three lists is empty
C13_Witness ==
    /\ pc = "report_done"
    /\ report.TP_dois # <<>>
    /\ report.FN_dois # <<>>
    /\ report.FP_dois # <<>>

\* the identity a record denotes: its valid DOI, else its title in lower case
\* without surrounding whitespace together with its year
GroupKey(rec) ==
    IF rec.denotes # NoneVal THEN <<"doi", rec.denotes>>
    ELSE <<"ttl", Lower(Strip(rec.title)), Strip(rec.year)>>

\* C14: duplicates_collapsed_total is the sum of (count - 1) over the identity
\* groups of the records read, DOI groups and title+year groups alike, that
\* is the number of records read minus the number of groups; the records are
\* those the read loop was given, in the order it was given them.
C14_CollapsedTotal ==
    pc = "report_done" =>
        /\ report.duplicates.duplicates_collapsed_total
               = Len(raw_records)
                 - Cardinality({GroupKey(raw_records[k]) : k \in DOMAIN raw_records})
        /\ report.duplicates.duplicates_collapsed_total
               = Len(detail) - Cardinality(retrieved_ids)

\* the example of the claim: three records sharing one DOI and two records
\* without valid DOI sharing title and year give 3
C14_Witness ==
    /\ pc = "report_done"
    /\ Len(dir_files) = 2
    /\ Len(Concat(dir_files)) = 5
    /\ Len(raw_records) = 5
    /\ Cardinality({k \in DOMAIN raw_records :
                       raw_records[k].denotes = ReportRecordList[1].denotes}) = 3
    /\ Cardinality({k \in DOMAIN raw_records : raw_records[k].denotes = NoneVal}) = 2
    /\ report.duplicates.duplicates_collapsed_total = 3

\* the canonical-form check as the claim words it: prefix and trailing
\* punctuation stripped, then the pattern
FailsAfterPrefixAndPunctuation(doi_field) ==
    ~MatchesDoiRe(StripTrailing(StripResolverPrefix(doi_field, TRUE), TrailingPunctuation))

\* what the claim promises for record k
TreatedAsNoDoi(k) ==
    /\ detail[k].doi = NoneVal
    /\ detail[k].id = Str(<<"t", "t", "l", "Y", ":">>)
                      \o Sha1Hex(GroupKey(raw_records[k])[2] \o Str(<<"|", "|">>)
                                 \o GroupKey(raw_records[k])[3])
    /\ detail[k].id \in retrieved_ids
    /\ \A d \in retrieved_dois : \E h \in DOMAIN detail : h # k /\ detail[h].doi = d

\* C15 as stated: a record whose raw DOI, after prefix and trailing-punctuation
\* stripping, does not match 10.<4-9 digits>/<non-space>+ gets a 'ttlY:'
\* identity and adds nothing to the retrieved-DOI set.
C15_AsStated ==
    \A k \in DOMAIN detail :
        (raw_records[k].raw_doi # NoneVal
             /\ FailsAfterPrefixAndPunctuation(raw_records[k].raw_doi))
            => TreatedAsNoDoi(k)

\* C15 as amended: a record whose raw DOI denotes no valid DOI, that is, which
\* after percent-decoding, removal of all whitespace, prefix and
\* trailing-punctuation stripping does not match the pattern, gets the 'ttlY:'
\* identity of its title and year and adds nothing to the retrieved-DOI set;
\* the directory is read to the end and the report is made.
C15_InvalidDoiFallsBack ==
    /\ \A k \in DOMAIN detail :
           (raw_records[k].raw_doi # NoneVal /\ raw_records[k].denotes = NoneVal)
               => TreatedAsNoDoi(k)
    /\ pc = "report_done" => report.TE_doi = Cardinality(retrieved_dois)

\* a record with an invalid DOI field read next to a record with a valid one
C15_Witness ==
    /\ pc = "report_done"
    /\ \E k, h \in DOMAIN detail :
           /\ raw_records[k].raw_doi # NoneVal
           /\ raw_records[k].denotes = NoneVal
           /\ StartsWith(detail[k].id, Str(<<"t", "t", "l", "Y", ":">>))
           /\ raw_records[h].denotes # NoneVal
    /\ Cardinality(retrieved_dois) = 1
    /\ Cardinality(retrieved_ids) = 2

\* the records of a directory put in one file, in the order of ReportRecordList
OneFileInListOrder(files) ==
    <<Concat([k \in DOMAIN ReportRecordList |->
                 SelectSeq(Concat(files), LAMBDA rec : rec = ReportRecordList[k])])>>

\* the parts of the outcome the claim lists
ListedParts(ids, dois, rep) ==
    <<ids, dois, rep.RC_percent, rep.EF_percent, rep.TP_dois, rep.FN_dois, rep.FP_dois,
      rep.duplicates.duplicates_collapsed_total>>

\* C20: identity set, DOI set, recall, precision, TP/FN/FP and the duplicate
\* total of a run are those of the run over the same records put in one file
\* in a fixed order, however the records are ordered and split into files.
C20_OrderAndSplitIndependent ==
    pc = "report_done" =>
        LET ref == ComputeMetrics(source_kind, OneFileInListOrder(dir_files), targets_dois)
        IN  ListedParts(retrieved_ids, retrieved_dois, report)
                = ListedParts(ref.retrieved_ids, ref.retrieved_dois, ref.report)

\* C20 for CSV directories alone
C20_CsvListedParts ==
    (pc = "report_done" /\ source_kind = "csv") =>
        LET ref == ComputeMetrics(source_kind, OneFileInListOrder(dir_files), targets_dois)
        IN  ListedParts(retrieved_ids, retrieved_dois, report)
                = ListedParts(ref.retrieved_ids, ref.retrieved_dois, ref.report)

\* C20 for CSV directories, of the whole report dict
C20_CsvWholeReport ==
    (pc = "report_done" /\ source_kind = "csv") =>
        report = ComputeMetrics(source_kind, OneFileInListOrder(dir_files), targets_dois).report

\* C20 for .bib directories of at most one file
C20_BibOneFile ==
    (pc = "report_done" /\ source_kind = "bib" /\ Len(dir_files) <= 1) =>
        LET ref == ComputeMetrics(source_kind, OneFileInListOrder(dir_files), targets_dois)
        IN  ListedParts(retrieved_ids, retrieved_dois, report)
                = ListedParts(ref.retrieved_ids, ref.retrieved_dois, ref.report)

----------------------------------------------------------------------------
(* Provider adapters: readers/bib_reader.py, _detect_venue_type,           *)
(* ScienceDirectProvider, ACMProvider, PROVIDERS, _apply_providers          *)
(*                                                                         *)
(* A dict is a function from its keys; a value is a string, None, or a      *)
(* value that is no string (the signatures say Dict[str, Any]).            *)

\* a value that is not a string: the integer n
IntVal(n) == <<-3, n>>

IsIntVal(x) == Len(x) = 2 /\ x[1] = -3

\* the outcome of a call that raised
Raises == <<-4>>

\* truth value of a Python value
PyTruthy(x) == IF IsIntVal(x) THEN x[2] # 0 ELSE Truthy(x)

\* str(x) for the values used: the integer is a single digit
PyStr(x) ==
    IF x = NoneVal THEN Str(<<"N", "O", "N", "E">>)
    ELSE IF IsIntVal(x) THEN <<48 + x[2]>>
    ELSE x

\* sub in str
Contains(str, sub) ==
    \E k \in 0..(Len(str) - Len(sub)) : SubSeq(str, k + 1, k + Len(sub)) = sub

\* d.get(key) and d.get(key, default)
Get(d, key) == IF key \in DOMAIN d THEN d[key] ELSE NoneVal

GetOr(d, key, default) == IF key \in DOMAIN d THEN d[key] ELSE default

\* d[key] = value
Set(d, key, value) == [k \in DOMAIN d \cup {key} |-> IF k = key THEN value ELSE d[k]]

\* d.setdefault(key, value)
SetDefault(d, key, value) == IF key \in DOMAIN d THEN d ELSE Set(d, key, value)

\* _detect_venue_type: the venue type, None, or Raises when .lower() is
\* called on a value that is no string
DetectVenueType(etype, venue, series) ==
    IF IsIntVal(etype) /\ PyTruthy(etype) THEN Raises
    ELSE LET et == Lower(IF PyTruthy(etype) THEN etype ELSE <<>>)
         IN  IF et = Str(<<"a", "r", "t", "i", "c", "l", "e">>) THEN Str(<<"j", "o", "u", "r", "n", "a", "l">>)
             ELSE IF et \in {Str(<<"i", "n", "p", "r", "o", "c", "e", "e", "d", "i", "n", "g", "s">>), Str(<<"p", "r", "o", "c", "e", "e", "d", "i", "n", "g", "s">>)} THEN Str(<<"c", "o", "n", "f", "e", "r", "e", "n", "c", "e">>)
             ELSE IF et \in {Str(<<"b", "o", "o", "k">>), Str(<<"i", "n", "b", "o", "o", "k">>)} THEN Str(<<"b", "o", "o", "k">>)
             ELSE IF et \in {Str(<<"p", "h", "d", "t", "h", "e", "s", "i", "s">>), Str(<<"m", "a", "s", "t", "e", "r", "s", "t", "h", "e", "s", "i", "s">>), Str(<<"b", "a", "c", "h", "e", "l", "o", "r", "t", "h", "e", "s", "i", "s">>)} THEN Str(<<"t", "h", "e", "s", "i", "s">>)
             ELSE IF PyTruthy(series)
             THEN IF IsIntVal(series) THEN Raises
                  ELSE IF \E hint \in {Str(<<"i", "c", "s", "e">>), Str(<<"g", "e", "c", "c", "o">>), Str(<<"i", "s", "s", "t", "a">>), Str(<<"a", "s", "e">>)} :
                              Contains(Lower(series), hint)
                       THEN Str(<<"c", "o", "n", "f", "e", "r", "e", "n", "c", "e">>) ELSE NoneVal
             ELSE NoneVal

\* variant of SetResolverUrl that writes the URL whenever there is a DOI, onto
\* the URL already there
SetResolverUrlAgain(n) ==
    IF PyTruthy(Get(n, "doi"))
    THEN Set(n, "doi_resolver_url",
             Str(<<"h", "t", "t", "p", "s", ":", "/", "/", "d", "o", "i", ".", "o", "r", "g", "/">>) \o PyStr(IF PyTruthy(Get(n, "doi_resolver_url"))
                                         THEN Get(n, "doi_resolver_url") ELSE Get(n, "doi")))
    ELSE n

\* lines 172-174 and 203-205: the DOI resolver URL, when there is a DOI and
\* no URL yet
SetResolverUrl(n) ==
    IF PyTruthy(Get(n, "doi")) /\ ~PyTruthy(Get(n, "doi_resolver_url"))
    THEN Set(n, "doi_resolver_url", Str(<<"h", "t", "t", "p", "s", ":", "/", "/", "d", "o", "i", ".", "o", "r", "g", "/">>) \o PyStr(Get(n, "doi")))
    ELSE n

\* lines 175-177 and 206-209: the venue type when there is none; the result is
\* the dict as the call leaves it and whether the call raised
SetVenueType(n) ==
    IF PyTruthy(Get(n, "venue_type")) THEN [rec |-> n, raised |-> FALSE]
    ELSE LET vt == DetectVenueType(Get(n, "entry_type"), Get(n, "venue"), Get(n, "series"))
         IN  IF vt = Raises THEN [rec |-> n, raised |-> TRUE]
             ELSE [rec |-> Set(n, "venue_type", vt), raised |-> FALSE]

\* ScienceDirectProvider.detect
ScienceDirectDetect(raw_entry) ==
    LET url == Lower(PyStr(GetOr(raw_entry, "url", <<>>)))
        doi == Lower(PyStr(GetOr(raw_entry, "doi", <<>>)))
    IN  Contains(url, Str(<<"s", "c", "i", "e", "n", "c", "e", "d", "i", "r", "e", "c", "t", ".", "c", "o", "m">>)) \/ StartsWith(doi, Str(<<"1", "0", ".", "1", "0", "1", "6", "/">>))

\* ScienceDirectProvider.fix: the dict is changed in place, statement by
\* statement, up to the statement that raises
ScienceDirectFix(n, raw_entry) ==
    SetVenueType(SetResolverUrl(
        SetDefault(Set(n, "source_provider", Str(<<"s", "c", "i", "e", "n", "c", "e", "d", "i", "r", "e", "c", "t">>)),
                   "source_platform", Str(<<"S", "c", "i", "e", "n", "c", "e", "D", "i", "r", "e", "c", "t">>))))

\* ACMProvider.detect
ACMDetect(raw_entry) ==
    LET url == Lower(PyStr(GetOr(raw_entry, "url", <<>>)))
        doi == Lower(PyStr(GetOr(raw_entry, "doi", <<>>)))
        publisher == Lower(PyStr(GetOr(raw_entry, "publisher", <<>>)))
    IN  \/ Contains(url, Str(<<"d", "l", ".", "a", "c", "m", ".", "o", "r", "g">>))
        \/ Contains(url, Str(<<"a", "c", "m", ".", "o", "r", "g">>))
        \/ StartsWith(doi, Str(<<"1", "0", ".", "1", "1", "4", "5", "/">>))
        \/ Contains(publisher, Str(<<"a", "s", "s", "o", "c", "i", "a", "t", "i", "o", "n", " ", "f", "o", "r", " ", "c", "o", "m", "p", "u", "t", "i", "n", "g", " ", "m", "a", "c", "h", "i", "n", "e", "r", "y">>))

\* lines 199-202: the publisher name
SetPublisher(n, raw_entry) ==
    LET pub == IF PyTruthy(Get(n, "publisher")) THEN Get(n, "publisher")
               ELSE Get(raw_entry, "publisher")
    IN  IF PyTruthy(pub) /\ Contains(Lower(PyStr(pub)), Str(<<"a", "s", "s", "o", "c", "i", "a", "t", "i", "o", "n", " ", "f", "o", "r", " ", "c", "o", "m", "p", "u", "t", "i", "n", "g", " ", "m", "a", "c", "h", "i", "n", "e", "r", "y">>))
        THEN Set(n, "publisher", Str(<<"A", "s", "s", "o", "c", "i", "a", "t", "i", "o", "n", " ", "f", "o", "r", " ", "C", "o", "m", "p", "u", "t", "i", "n", "g", " ", "M", "a", "c", "h", "i", "n", "e", "r", "y">>))
        ELSE n

\* ACMProvider.fix
ACMFix(n, raw_entry) ==
    SetVenueType(SetResolverUrl(SetPublisher(
        SetDefault(Set(n, "source_provider", Str(<<"a", "c", "m">>)),
                   "source_platform", Str(<<"A", "C", "M", " ", "D", "i", "g", "i", "t", "a", "l", " ", "L", "i", "b", "r", "a", "r", "y">>)), raw_entry)))

\* PROVIDERS, by name
PROVIDERS == <<"sciencedirect", "acm">>

\* provider_cls.detect(raw) and provider_cls.fix(normalized, raw)
Detect(name, raw_entry) ==
    IF name = "sciencedirect" THEN ScienceDirectDetect(raw_entry) ELSE ACMDetect(raw_entry)

Fix(name, n, raw_entry) ==
    IF name = "sciencedirect" THEN ScienceDirectFix(n, raw_entry) ELSE ACMFix(n, raw_entry)

\* a key that the dict does not have
Absent == <<-5>>

\* the dict with the given values, without the keys whose value is Absent
DictOf(items) == [key \in {k \in DOMAIN items : items[k] # Absent} |-> items[key]]

\* raw entries: url, doi and publisher as the two providers look at them
RawEntries ==
    {DictOf([url |-> u, doi |-> d, publisher |-> pb]) :
        u \in {Absent, Str(<<"h", "t", "t", "p", "s", ":", "/", "/", "w", "w", "w", ".", "s", "c", "i", "e", "n", "c", "e", "d", "i", "r", "e", "c", "t", ".", "c", "o", "m", "/", "a">>), Str(<<"h", "t", "t", "p", "s", ":", "/", "/", "d", "l", ".", "a", "c", "m", ".", "o", "r", "g", "/", "b">>)},
        d \in {Absent, Str(<<"1", "0", ".", "1", "0", "1", "6", "/", "j">>), Str(<<"1", "0", ".", "1", "1", "4", "5", "/", "3">>)},
        pb \in {Absent, Str(<<"E", "l", "s", "e", "v", "i", "e", "r">>), Str(<<"A", "S", "S", "O", "C", "I", "A", "T", "I", "O", "N", " ", "F", "O", "R", " ", "C", "O", "M", "P", "U", "T", "I", "N", "G", " ", "M", "A", "C", "H", "I", "N", "E", "R", "Y">>)}}

\* _normalize_raw_entry, lines 265-299, on the keys the providers read or
\* write and on title, authors and year; entry type, series and venue type are
\* given, the key source_platform is there or not
NormalizedOf(raw_entry, etype, series, venue_type, with_platform) ==
    LET doi == BibReaderCleanDoi(Get(raw_entry, "doi"))
    IN  DictOf([entry_type |-> etype,
                title |-> Str(<<"A", " ", "b">>),
                authors |-> Str(<<"C", ",", " ", "D">>),
                year |-> IntVal(2020),
                venue |-> NoneVal,
                venue_type |-> venue_type,
                publisher |-> Get(raw_entry, "publisher"),
                doi |-> doi,
                doi_resolver_url |-> IF Truthy(doi) THEN Str(<<"h", "t", "t", "p", "s", ":", "/", "/", "d", "o", "i", ".", "o", "r", "g", "/">>) \o doi ELSE NoneVal,
                series |-> series,
                source_platform |-> IF with_platform THEN NoneVal ELSE Absent,
                source_provider |-> NoneVal])

\* the records passed with a raw entry: as _normalize_raw_entry builds them,
\* and the same with no venue type or with a series that is no string
NormalizedInputs(raw_entry) ==
    UNION {{NormalizedOf(raw_entry, etype, series, vt, wp) :
               vt \in {NoneVal} \cup ({DetectVenueType(etype, NoneVal, series)} \ {Raises}),
               wp \in BOOLEAN} :
           etype \in {Str(<<"a", "r", "t", "i", "c", "l", "e">>), Str(<<"m", "i", "s", "c">>)},
           series \in {NoneVal, Str(<<"I", "C", "S", "E">>), IntVal(5)}}

InitProviders ==
    /\ raw \in RawEntries
    /\ normalized \in NormalizedInputs(raw)
    /\ before = normalized
    /\ provider_index = 0
    /\ returned = <<>>
    /\ fix_calls = <<>>
    /\ raised = <<>>
    /\ fixed_once = <<>>
    /\ fixed_twice = <<>>
    /\ pc = "providers"
    /\ IdleSplit /\ IdleValue /\ IdleEntry /\ IdleDoi /\ IdleMetrics /\ IdleReport

\* _apply_providers, lines 308-315: one pass of the loop over PROVIDERS
TryProvider ==
    /\ pc = "providers"
    /\ provider_index < Len(PROVIDERS)
    /\ LET name == PROVIDERS[provider_index + 1]
       IN  IF Detect(name, raw)
           THEN \E r \in {Fix(name, normalized, raw)} :
                    /\ normalized' = r.rec
                    /\ fix_calls' = Append(fix_calls, name)
                    /\ IF r.raised
                       THEN /\ raised' = Append(raised, name)
                            /\ provider_index' = provider_index + 1
                            /\ pc' = pc
                       ELSE /\ raised' = raised
                            /\ provider_index' = provider_index
                            /\ pc' = "providers_return"
           ELSE /\ provider_index' = provider_index + 1
                /\ UNCHANGED <<pc, normalized, fix_calls, raised>>
    /\ UNCHANGED <<raw, returned, before, fixed_once, fixed_twice,
                   splitVars, valueVars, entryVars, doiVars, metricVars, reportVars>>

\* _apply_providers, line 316: after the break or at the end of the loop
ProvidersReturn ==
    /\ \/ pc = "providers_return"
       \/ pc = "providers" /\ provider_index = Len(PROVIDERS)
    /\ returned' = normalized
    /\ pc' = "providers_done"
    /\ UNCHANGED <<raw, normalized, provider_index, before, fix_calls, raised,
                   fixed_once, fixed_twice,
                   splitVars, valueVars, entryVars, doiVars, metricVars, reportVars>>

NextProviders == TryProvider \/ ProvidersReturn

SpecProviders == InitProviders /\ [][NextProviders]_vars

\* a record and a raw entry on which a provider's fix is called twice
InitFix ==
    /\ raw \in RawEntries
    /\ normalized \in NormalizedInputs(raw)
    /\ before = normalized
    /\ provider_index = 0
    /\ returned = <<>>
    /\ fix_calls = <<>>
    /\ raised = <<>>
    /\ fixed_once = <<>>
    /\ fixed_twice = <<>>
    /\ pc = "fix"
    /\ IdleSplit /\ IdleValue /\ IdleEntry /\ IdleDoi /\ IdleMetrics /\ IdleReport

\* ScienceDirectProvider.fix on the record, then on the dict it left
ApplyScienceDirectFix ==
    /\ pc = "fix"
    /\ fixed_once' = ScienceDirectFix(normalized, raw)
    /\ fixed_twice' = ScienceDirectFix(fixed_once'.rec, raw)
    /\ fix_calls' = <<"sciencedirect", "sciencedirect">>
    /\ pc' = "fix_done"
    /\ UNCHANGED <<raw, normalized, provider_index, returned, before, raised,
                   splitVars, valueVars, entryVars, doiVars, metricVars, reportVars>>

\* ACMProvider.fix on the record, then on the dict it left
ApplyACMFix ==
    /\ pc = "fix"
    /\ fixed_once' = ACMFix(normalized, raw)
    /\ fixed_twice' = ACMFix(fixed_once'.rec, raw)
    /\ fix_calls' = <<"acm", "acm">>
    /\ pc' = "fix_done"
    /\ UNCHANGED <<raw, normalized, provider_index, returned, before, raised,
                   splitVars, valueVars, entryVars, doiVars, metricVars, reportVars>>

NextFix == ApplyScienceDirectFix \/ ApplyACMFix

SpecFix == InitFix /\ [][NextFix]_vars

----------------------------------------------------------------------------
(* _normalize_raw_entry *)

\* _prefer_venue
PreferVenue(e) ==
    IF PyTruthy(Get(e, "journal")) THEN Get(e, "journal")
    ELSE IF PyTruthy(Get(e, "booktitle")) THEN Get(e, "booktitle")
    ELSE IF PyTruthy(Get(e, "howpublished")) THEN Get(e, "howpublished")
    ELSE NoneVal

\* the entry types of the raw entries
EntryTypes ==
    {Absent, Str(<<"a", "r", "t", "i", "c", "l", "e">>), Str(<<"A", "r", "t", "i", "c", "l", "e">>), Str(<<"i", "n", "p", "r", "o", "c", "e", "e", "d", "i", "n", "g", "s">>), Str(<<"c", "o", "n", "f", "e", "r", "e", "n", "c", "e">>), Str(<<"p", "r", "o", "c", "e", "e", "d", "i", "n", "g", "s">>),
     Str(<<"b", "o", "o", "k">>), Str(<<"i", "n", "b", "o", "o", "k">>), Str(<<"p", "h", "d", "t", "h", "e", "s", "i", "s">>), Str(<<"m", "a", "s", "t", "e", "r", "s", "t", "h", "e", "s", "i", "s">>), Str(<<"b", "a", "c", "h", "e", "l", "o", "r", "t", "h", "e", "s", "i", "s">>), Str(<<"m", "i", "s", "c">>)}

\* series names: none, two that hold a series hint (the second inside a
\* word), one that holds none
SeriesNames == {Absent, Str(<<"I", "C", "S", "E">>), Str(<<"D", "a", "t", "a", "b", "a", "s", "e">>), Str(<<"L", "N", "C", "S">>)}

\* raw entries as bibtexparser delivers them: ENTRYTYPE, and the fields the
\* venue and the venue type are taken from
VenueRawEntries ==
    {DictOf([ENTRYTYPE |-> et, journal |-> jr, booktitle |-> bt, series |-> sr,
             title |-> Str(<<"A", " ", "b">>), doi |-> Str(<<"1", "0", ".", "1", "0", "1", "6", "/", "j">>)]) :
        et \in EntryTypes, jr \in {Absent, Str(<<"A">>)}, bt \in {Absent, Str(<<"B">>)}, sr \in SeriesNames}

\* _normalize_raw_entry on the keys of the record that hold the entry type,
\* the venue, the DOI and the provenance.  The dict e of lines 227-230 holds
\* every key of the raw entry under its lowered name as well, so both lookups
\* of line 232 find the value of ENTRYTYPE.
NormalizeRawEntry(raw_entry) ==
    LET etype == PyOr(Get(raw_entry, "ENTRYTYPE"), Get(raw_entry, "ENTRYTYPE"))
        venue == PreferVenue(raw_entry)
        series == Get(raw_entry, "series")
        doi == BibReaderCleanDoi(Get(raw_entry, "doi"))
    IN  [entry_type |-> IF Truthy(etype) THEN Lower(etype) ELSE NoneVal,
         title |-> Get(raw_entry, "title"),
         venue |-> venue,
         venue_type |-> DetectVenueType(etype, venue, series),
         publisher |-> Get(raw_entry, "publisher"),
         doi |-> doi,
         doi_resolver_url |-> IF Truthy(doi) THEN Str(<<"h", "t", "t", "p", "s", ":", "/", "/", "d", "o", "i", ".", "o", "r", "g", "/">>) \o doi ELSE NoneVal,
         series |-> series,
         source_platform |-> NoneVal,
         source_provider |-> NoneVal]

InitNormalize ==
    /\ raw \in VenueRawEntries
    /\ normalized = <<>>
    /\ provider_index = 0 /\ returned = <<>> /\ before = <<>>
    /\ fix_calls = <<>> /\ raised = <<>>
    /\ fixed_once = <<>> /\ fixed_twice = <<>>
    /\ pc = "normalize"
    /\ IdleSplit /\ IdleValue /\ IdleEntry /\ IdleDoi /\ IdleMetrics /\ IdleReport

\* read_bib_file, line 327: the record of one raw entry
NormalizeEntry ==
    /\ pc = "normalize"
    /\ normalized' = NormalizeRawEntry(raw)
    /\ pc' = "normalize_done"
    /\ UNCHANGED <<raw, provider_index, returned, before, fix_calls, raised,
                   fixed_once, fixed_twice,
                   splitVars, valueVars, entryVars, doiVars, metricVars, reportVars>>

NextNormalize == NormalizeEntry

SpecNormalize == InitNormalize /\ [][NextNormalize]_vars

----------------------------------------------------------------------------
(* Properties of the provider chain *)

\* positions of the providers whose detect holds of the raw entry
Matching == {k \in DOMAIN PROVIDERS : Detect(PROVIDERS[k], raw)}

FirstMatching == CHOOSE k \in Matching : \A h \in Matching : k <= h

C16_FirstMatchOnlyWithoutRaise ==
    (pc = "providers_done" /\ raised = <<>>) =>
        IF Matching = {} THEN fix_calls = <<>> /\ returned = before
        ELSE /\ fix_calls = <<PROVIDERS[FirstMatching]>>
             /\ returned = Fix(PROVIDERS[FirstMatching], before, raw).rec

\* both providers match and the first one's fix alone is applied
C16_BothMatch ==
    /\ pc = "providers_done"
    /\ Matching = {1, 2}
    /\ fix_calls = <<"sciencedirect">>
    /\ Get(returned, "source_provider") = Str(<<"s", "c", "i", "e", "n", "c", "e", "d", "i", "r", "e", "c", "t">>)

C17_ReturnsAfterRaise ==
    /\ pc = "providers_done"
    /\ raised = <<"sciencedirect">>
    /\ returned # <<>>

\* the fields a provider may write
AnnotationFields == {"source_provider", "source_platform", "doi_resolver_url", "venue_type"}

\* C18: the record returned by the chain has the keys and values of the
\* record passed, save for source_provider, source_platform, doi_resolver_url
\* and venue_type: title, authors, year and publisher are as before.
C18_OnlyAnnotationFields ==
    pc = "providers_done" =>
        \A key \in (DOMAIN returned \cup DOMAIN before) \ AnnotationFields :
            /\ key \in DOMAIN returned
            /\ key \in DOMAIN before
            /\ returned[key] = before[key]

\* C18 with the publisher left out of the fields that stay as they are
C18_ExceptPublisher ==
    pc = "providers_done" =>
        \A key \in (DOMAIN returned \cup DOMAIN before) \ (AnnotationFields \cup {"publisher"}) :
            /\ key \in DOMAIN returned
            /\ key \in DOMAIN before
            /\ returned[key] = before[key]

\* the ACM fix applied to a record whose publisher is in upper case
C18_PublisherRewritten ==
    /\ pc = "providers_done"
    /\ fix_calls = <<"acm">>
    /\ Get(before, "publisher") = Str(<<"A", "S", "S", "O", "C", "I", "A", "T", "I", "O", "N", " ", "F", "O", "R", " ", "C", "O", "M", "P", "U", "T", "I", "N", "G", " ", "M", "A", "C", "H", "I", "N", "E", "R", "Y">>)
    /\ Get(returned, "publisher") = Str(<<"A", "s", "s", "o", "c", "i", "a", "t", "i", "o", "n", " ", "f", "o", "r", " ", "C", "o", "m", "p", "u", "t", "i", "n", "g", " ", "M", "a", "c", "h", "i", "n", "e", "r", "y">>)

\* C19: for both providers, calling fix on the dict a first call of fix left,
\* with the same raw entry, leaves the same dict and ends the same way.
C19_FixIdempotent ==
    pc = "fix_done" => fixed_twice = fixed_once

\* the ACM fix, applied twice, where the first call set provider, platform,
\* publisher and venue type
C19_Witness ==
    /\ pc = "fix_done"
    /\ fix_calls = <<"acm", "acm">>
    /\ ~fixed_once.raised
    /\ Get(fixed_once.rec, "source_provider") # Get(before, "source_provider")
    /\ Get(fixed_once.rec, "source_platform") # Get(before, "source_platform")
    /\ Get(fixed_once.rec, "publisher") # Get(before, "publisher")
    /\ Get(fixed_once.rec, "venue_type") # Get(before, "venue_type")
    /\ fixed_twice = fixed_once

\* the ScienceDirect fix, applied twice, on a record with a DOI
C19_ScienceDirectTwice ==
    /\ pc = "fix_done"
    /\ fix_calls = <<"sciencedirect", "sciencedirect">>
    /\ PyTruthy(Get(before, "doi"))
    /\ fixed_once.rec # before
    /\ fixed_twice = fixed_once

----------------------------------------------------------------------------
(* Relations between the counts of the report *)

\* C25: unique DOIs <= unique identities <= records read, the records read
\* minus the unique identities are the duplicates collapsed, the relevant
\* retrieved are at most the unique identities (and at most the relevant), and
\* recall and precision lie between 0 and 100 (percentages in hundredths).
C25_CountRelations ==
    pc = "report_done" =>
        /\ report.TE_doi <= report.TE
        /\ report.TE <= report.ID
        /\ report.ID - report.TE = report.duplicates.duplicates_collapsed_total
        /\ report.TER <= report.TE
        /\ report.TER <= report.ER
        /\ 0 <= report.RC_percent /\ report.RC_percent <= 100 * 100
        /\ 0 <= report.EF_percent /\ report.EF_percent <= 100 * 100

\* a report in which all the inequalities are strict: records collapsed, an
\* identity without DOI, and relevant DOIs both retrieved and missed
C25_Witness ==
    /\ pc = "report_done"
    /\ 0 < report.TE_doi
    /\ report.TE_doi < report.TE
    /\ report.TE < report.ID
    /\ report.duplicates.duplicates_collapsed_total > 0
    /\ 0 < report.TER
    /\ report.TER < report.ER
    /\ report.TER < report.TE
    /\ 0 < report.RC_percent /\ report.RC_percent < 100 * 100
    /\ 0 < report.EF_percent /\ report.EF_percent < 100 * 100

\* the same relations hold of a directory of two .bib files, where the
\* entries of the first file are read again with the second
C25_WitnessRereadBib ==
    /\ pc = "report_done"
    /\ Len(dir_files) = 2
    /\ Len(detail) > Len(Concat(dir_files))
    /\ report.ID = Len(detail)
    /\ report.ID - report.TE = report.duplicates.duplicates_collapsed_total

----------------------------------------------------------------------------
(* Termination of split_bibtex_entries and parse_entry *)

\* an iteration of the splitter's outer loop moves the cursor i forward or
\* leaves the loop
SplitAdvances == [][pc = "split" => (i' > i \/ pc' = "split_done")]_vars

\* an iteration of parse_entry's field loop moves the cursor pos forward or
\* leaves the loop
FieldLoopAdvances == [][pc = "fields" => (pos' > pos \/ pc' = "entry_done")]_vars

\* the field loop is left with the cursor at the end of the text or on a '}'
\* that stands outside every field value
FieldLoopExit ==
    [][(pc = "fields" /\ pc' = "entry_done")
           => (pos' >= Len(fields_text) \/ fields_text[pos' + 1] = Ord["}"])]_vars

\* C24: split_bibtex_entries and parse_entry return on every input text,
\* balanced or not: each iteration of the splitter's outer loop and of the
\* field loop advances its cursor or exits, and the field loop exits at the
\* end of the text or at an unmatched '}'.
C24_Terminates ==
    /\ SplitAdvances
    /\ FieldLoopAdvances
    /\ FieldLoopExit
    /\ <>(pc \in {"split_done", "entry_done"})

\* @a{,k={ : the field loop has stored k and ends at the end of the text,
\* inside the value that is never closed
C24_Witness ==
    /\ pc = "entry_done"
    /\ entry_text = OpenHead \o Str(<<",", "k", "=", "{">>)
    /\ ~Balanced(entry_text)
    /\ DOMAIN fields = {Str(<<"k">>)}
    /\ pos = Len(fields_text)

\* @a{,=}} : the field loop ends on the first '}', before the end of the text
C24_ExitAtBrace ==
    /\ pc = "entry_done"
    /\ entry_text = OpenHead \o Str(<<",", "=", "}", "}">>)
    /\ pos = 1
    /\ pos < Len(fields_text)

\* the splitter has returned on a text whose braces do not balance after
\* closing one entry
C24_SplitUnbalanced ==
    /\ pc = "split_done"
    /\ ~Balanced(text)
    /\ Len(entries) = 2
    /\ spans[1][3] /\ ~spans[2][3]

----------------------------------------------------------------------------
(* Properties of _normalize_raw_entry *)

\* the entry type of the raw entry, in lower case
GivenType == Lower(GetOr(raw, "ENTRYTYPE", <<>>))

\* the series name holds one of the conference-series abbreviations
SeriesHint ==
    \E hint \in {Str(<<"i", "c", "s", "e">>), Str(<<"g", "e", "c", "c", "o">>), Str(<<"i", "s", "s", "t", "a">>), Str(<<"a", "s", "e">>)} : Contains(Lower(GetOr(raw, "series", <<>>)), hint)

\* C23: the venue type is journal for article, conference for inproceedings,
\* conference and proceedings, book for book and inbook, thesis for phdthesis
\* and mastersthesis; for every other entry type it is conference when the
\* series name holds a conference-series abbreviation and unset otherwise.
C23_VenueTypeTable ==
    pc = "normalize_done" =>
        normalized.venue_type =
            IF GivenType = Str(<<"a", "r", "t", "i", "c", "l", "e">>) THEN Str(<<"j", "o", "u", "r", "n", "a", "l">>)
            ELSE IF GivenType \in {Str(<<"i", "n", "p", "r", "o", "c", "e", "e", "d", "i", "n", "g", "s">>), Str(<<"c", "o", "n", "f", "e", "r", "e", "n", "c", "e">>), Str(<<"p", "r", "o", "c", "e", "e", "d", "i", "n", "g", "s">>)} THEN Str(<<"c", "o", "n", "f", "e", "r", "e", "n", "c", "e">>)
            ELSE IF GivenType \in {Str(<<"b", "o", "o", "k">>), Str(<<"i", "n", "b", "o", "o", "k">>)} THEN Str(<<"b", "o", "o", "k">>)
            ELSE IF GivenType \in {Str(<<"p", "h", "d", "t", "h", "e", "s", "i", "s">>), Str(<<"m", "a", "s", "t", "e", "r", "s", "t", "h", "e", "s", "i", "s">>)} THEN Str(<<"t", "h", "e", "s", "i", "s">>)
            ELSE IF SeriesHint THEN Str(<<"c", "o", "n", "f", "e", "r", "e", "n", "c", "e">>)
            ELSE NoneVal

\* the table of C23 for the entry types other than conference and
\* bachelorthesis
C23_OtherEntryTypes ==
    (pc = "normalize_done" /\ GivenType \notin {Str(<<"c", "o", "n", "f", "e", "r", "e", "n", "c", "e">>), Str(<<"b", "a", "c", "h", "e", "l", "o", "r", "t", "h", "e", "s", "i", "s">>)}) =>
        normalized.venue_type =
            IF GivenType = Str(<<"a", "r", "t", "i", "c", "l", "e">>) THEN Str(<<"j", "o", "u", "r", "n", "a", "l">>)
            ELSE IF GivenType \in {Str(<<"i", "n", "p", "r", "o", "c", "e", "e", "d", "i", "n", "g", "s">>), Str(<<"p", "r", "o", "c", "e", "e", "d", "i", "n", "g", "s">>)} THEN Str(<<"c", "o", "n", "f", "e", "r", "e", "n", "c", "e">>)
            ELSE IF GivenType \in {Str(<<"b", "o", "o", "k">>), Str(<<"i", "n", "b", "o", "o", "k">>)} THEN Str(<<"b", "o", "o", "k">>)
            ELSE IF GivenType \in {Str(<<"p", "h", "d", "t", "h", "e", "s", "i", "s">>), Str(<<"m", "a", "s", "t", "e", "r", "s", "t", "h", "e", "s", "i", "s">>)} THEN Str(<<"t", "h", "e", "s", "i", "s">>)
            ELSE IF SeriesHint THEN Str(<<"c", "o", "n", "f", "e", "r", "e", "n", "c", "e">>)
            ELSE NoneVal

\* an entry of type conference with a book title and no series has no venue
\* type
C23_ConferenceUnset ==
    /\ pc = "normalize_done"
    /\ GivenType = Str(<<"c", "o", "n", "f", "e", "r", "e", "n", "c", "e">>)
    /\ normalized.venue = Str(<<"B">>)
    /\ "series" \notin DOMAIN raw
    /\ normalized.venue_type = NoneVal

\* an entry of type bachelorthesis is a thesis
C23_BachelorThesis ==
    /\ pc = "normalize_done"
    /\ GivenType = Str(<<"b", "a", "c", "h", "e", "l", "o", "r", "t", "h", "e", "s", "i", "s">>)
    /\ normalized.venue_type = Str(<<"t", "h", "e", "s", "i", "s">>)

\* an entry of no listed type whose series is Database is a conference
C23_SeriesHintInsideWord ==
    /\ pc = "normalize_done"
    /\ GivenType = Str(<<"m", "i", "s", "c">>)
    /\ Get(raw, "series") = Str(<<"D", "a", "t", "a", "b", "a", "s", "e">>)
    /\ normalized.venue_type = Str(<<"c", "o", "n", "f", "e", "r", "e", "n", "c", "e">>)

====
